---- MODULE Spec2Model ----
(***************************************************************************)
(* Model of the job submission and task reconciliation engine of the       *)
(* paperless OCR dashboard (src/ocr_tracking_dashboard.py):                *)
(*   OcrDashboard.run_selected_ocr, stop_run, _run_api_reprocess_worker,   *)
(*   _poll_task_until_terminal and _poll_no_task_reprocess_diffs.          *)
(*                                                                         *)
(* Two threads act on the state: the UI thread (run_selected_ocr,          *)
(* stop_run) and the worker thread started by run_selected_ocr.  The       *)
(* worker is cut into one action per read of stop_event and per network    *)
(* call, so that stop_run can interleave wherever the real threads can.    *)
(* The model follows one accepted run from acceptance to the return of     *)
(* the worker.  Free text (titles, log lines, exception messages) is       *)
(* kept only where a result depends on it.                                 *)
(***************************************************************************)
EXTENDS Integers, Sequences, FiniteSets, TLC

\* ------------------------------------------------------------------ bounds
\* Largest batch of document ids handed to one run.
MaxBatch == 2

\* The sync runs started on one database file.
MaxSyncRuns == 3

\* The calls of stable_fingerprint compared with each other.
MaxFingerprintCalls == 2

\* The rows of the history file when the candidates are rebuilt.
MaxHistoryRows == 2

\* The pages of the document list the API serves to one fetch.
MaxPages == 2

\* The largest number of retries entered for the LLM request.
MaxRetryAttempts == 2

\* The rows of one appended batch, and the reads of the history file.
MaxBatchRows == 2
MaxReads == 2

\* The runs accepted one after the other.
MaxWorkers == 3

\* The threads at the history file: the workers of two runs, which append,
\* and a refresh, which reads.
Appenders == {"run_worker", "llm_worker"}
Reader == "refresh_worker"
Threads == Appenders \cup {Reader}

\* ------------------------------------------------------- program constants
NO_TASK_DIFF_POLL_INTERVAL_SECONDS == 5
NO_TASK_DIFF_MAX_WAIT_SECONDS == 600

\* --------------------------------------------------------------- universes
DocIds == 101 .. (100 + MaxBatch)

\* Optional values (Python None) are sequences of length 0 or 1.
None == << >>
Some(v) == << v >>

\* A normalized document as far as the engine reads it: the four snapshot
\* fields (title is carried through to reports only).
Docs ==
  [ modified : {Some("m0"), Some("m1")},
    content_length : {50, 500},
    archive_filename : {"", "a.pdf"},
    page_count : {None, Some(3)} ]

\* The documents as loaded into selected_candidates before the run: a
\* low-text document without archive file, the kind the candidate lists pick.
BaselineDocs ==
  { d \in Docs : d.modified = Some("m0") /\ d.content_length = 50
                 /\ d.archive_filename = "" /\ d.page_count = None }

Range(s) == { s[k] : k \in 1 .. Len(s) }

IsDistinct(s) == \A a, b \in 1 .. Len(s) : a # b => s[a] # s[b]

IsAscending(s) == \A a, b \in 1 .. Len(s) : a < b => s[a] < s[b]

\* The selected rows: sequences of distinct ids of length 1..MaxBatch.  The
\* engine uses ids as dictionary keys only and never compares two of them,
\* so the batches are taken in ascending order of id.
Batches ==
  UNION { { s \in [1 .. n -> DocIds] : IsAscending(s) } : n \in 1 .. MaxBatch }

\* ------------------------------------------------------ server responses
\* What the reprocess POST can return, as far as the worker reads it: the
\* UUID-shaped strings found by the deep scan (in scan order), whether the
\* body is a JSON object, and its "result" value.
SubmitPayloads ==
  { [is_dict |-> TRUE,  uuids |-> << >>,                 result |-> "OK"],
    [is_dict |-> TRUE,  uuids |-> << >>,                 result |-> " ok "],
    [is_dict |-> TRUE,  uuids |-> << >>,                 result |-> ""],
    [is_dict |-> FALSE, uuids |-> << >>,                 result |-> ""],
    [is_dict |-> TRUE,  uuids |-> <<"uuid-a">>,           result |-> "OK"],
    [is_dict |-> TRUE,  uuids |-> <<"uuid-a", "uuid-a">>, result |-> ""],
    [is_dict |-> TRUE,  uuids |-> <<"uuid-a", "uuid-b">>, result |-> ""] }

\* Exception texts of a failed network call (RuntimeError of _api_post_json
\* and api_get_json).
Exceptions == {"Network error", "HTTP 500"}

\* The words the task endpoint is known to report, each as written in
\* lower case, capitalised and upper case, and a few it may report besides.
Spellings ==
  { <<"success", "Success", "SUCCESS">>,
    <<"succeeded", "Succeeded", "SUCCEEDED">>,
    <<"done", "Done", "DONE">>,
    <<"completed", "Completed", "COMPLETED">>,
    <<"complete", "Complete", "COMPLETE">>,
    <<"finished", "Finished", "FINISHED">>,
    <<"failure", "Failure", "FAILURE">>,
    <<"failed", "Failed", "FAILED">>,
    <<"error", "Error", "ERROR">>,
    <<"revoked", "Revoked", "REVOKED">>,
    <<"canceled", "Canceled", "CANCELED">>,
    <<"cancelled", "Cancelled", "CANCELLED">>,
    <<"started", "Started", "STARTED">>,
    <<"pending", "Pending", "PENDING">>,
    <<"retry", "Retry", "RETRY">>,
    <<"successful", "Successful", "SUCCESSFUL">>,
    <<"ok", "Ok", "OK">> }

\* Texts with surrounding blanks, and what is left without them.
Padded ==
  { <<" ok ", "ok">>, <<" OK ", "OK">>,
    <<" success ", "success">>, <<" SUCCESS ", "SUCCESS">>,
    <<" Failed ", "Failed">>, <<" FAILED ", "FAILED">>,
    <<" ", "">> }

\* str.strip() on the strings the model uses.
Strip(str) ==
  IF \E t \in Padded : t[1] = str
    THEN (CHOOSE t \in Padded : t[1] = str)[2]
    ELSE str

\* str.upper() on the strings the model uses.
Upper(str) ==
  IF \E t \in Spellings : str \in {t[1], t[2]}
    THEN (CHOOSE t \in Spellings : str \in {t[1], t[2]})[3]
  ELSE IF \E t \in Padded : t[1] = str /\ Strip(str) # ""
    THEN LET up == (CHOOSE t \in Spellings : Strip(str) \in {t[1], t[2], t[3]})[3]
         IN  (CHOOSE t \in Padded : t[2] = up)[1]
  ELSE str

\* str.strip().upper()
StripUpper(str) == Upper(Strip(str))

\* The texts a task object may carry under status, state or task_status.
TaskStateTexts ==
  UNION { {t[1], t[2], t[3]} : t \in Spellings }
    \cup {" success ", " FAILED ", " ", ""}

\* What the task endpoint can return, as far as _task_state_from_payload
\* reads it.  shape says where a task object is found: "results" (an
\* envelope whose results list starts with an object), "flat" (an object
\* with an id and no results list; it is the task object when it also has
\* a status key), "list" (a list that starts with an object), "none"
\* (anything else).  status, state and task_status are the texts under
\* those keys of the task object, None for a missing key or a value that
\* is no text.
AllTaskPayloads ==
  [ shape : {"results", "flat", "list", "none"},
    status : {None} \cup { Some(t) : t \in TaskStateTexts },
    state : {None, Some("SUCCESS"), Some("failed")},
    task_status : {None, Some("Done"), Some("started")} ]

\* The answers the model of a whole batch draws from: a task object or
\* none, with one status text of each kind or none.
TaskPayloads ==
  { p \in AllTaskPayloads :
      /\ p.shape \in {"results", "none"}
      /\ p.status \in {None, Some("SUCCESS"), Some("success"), Some("FAILURE"),
                       Some("Revoked"), Some("started")}
      /\ p.state = None
      /\ p.task_status = None }

\* ----------------------------------------------------------- pure helpers
\* _extract_task_ids: the scanned UUIDs without repetitions, first
\* occurrence kept.
RECURSIVE Dedup(_, _)
Dedup(found, seen) ==
  IF found = << >> THEN << >>
  ELSE IF Head(found) \in seen THEN Dedup(Tail(found), seen)
       ELSE << Head(found) >> \o Dedup(Tail(found), seen \cup {Head(found)})

_extract_task_ids(payload) == Dedup(payload.uuids, {})

\* _task_state_from_payload: the state token, upper-cased: the first of
\* status, state, task_status that is a text with something in it.
_task_state_from_payload(payload) ==
  LET has_task_obj ==
        \/ payload.shape \in {"results", "list"}
        \/ payload.shape = "flat" /\ payload.status # None
      IsText(value) == value # None /\ Strip(value[1]) # ""
  IN  IF ~has_task_obj THEN "PENDING"
      ELSE IF IsText(payload.status) THEN StripUpper(payload.status[1])
      ELSE IF IsText(payload.state) THEN StripUpper(payload.state[1])
      ELSE IF IsText(payload.task_status) THEN StripUpper(payload.task_status[1])
      ELSE "PENDING"

\* Faulty variant of _classify_task_state: one spelling of "cancelled" is
\* missing from the failure tokens.
_classify_task_state_OneSpelling(raw_state) ==
  LET state == Upper(raw_state)
  IN  IF state \in {"SUCCESS", "SUCCEEDED", "DONE", "COMPLETED", "COMPLETE", "FINISHED"}
        THEN "success"
      ELSE IF state \in {"FAILURE", "FAILED", "ERROR", "REVOKED", "CANCELED"}
        THEN "failure"
      ELSE "pending"

_classify_task_state(raw_state) ==
  LET state == Upper(raw_state)
  IN  IF state \in {"SUCCESS", "SUCCEEDED", "DONE", "COMPLETED", "COMPLETE", "FINISHED"}
        THEN "success"
      ELSE IF state \in {"FAILURE", "FAILED", "ERROR", "REVOKED", "CANCELED", "CANCELLED"}
        THEN "failure"
      ELSE "pending"

_extract_doc_snapshot(doc) ==
  [ modified |-> doc.modified,
    content_length |-> doc.content_length,
    archive_filename |-> doc.archive_filename,
    page_count |-> doc.page_count ]

SnapshotKeys == <<"modified", "content_length", "archive_filename", "page_count">>

\* Faulty variant of _diff_snapshot: page_count is left out of the comparison.
_diff_snapshot_IgnorePageCount(before, after) ==
  SelectSeq(SnapshotKeys,
            LAMBDA key : key # "page_count" /\ before[key] # after[key])

\* _diff_snapshot: the keys whose values differ, in the fixed key order.
_diff_snapshot(before, after) ==
  SelectSeq(SnapshotKeys, LAMBDA key : before[key] # after[key])

\* dict helpers: an ordered dict id -> snapshot is a sequence of entries.
Keys(d) == [ k \in 1 .. Len(d) |-> d[k].id ]
Pop(d, id) == SelectSeq(d, LAMBDA e : e.id # id)
Get(d, id) == (CHOOSE e \in Range(d) : e.id = id).snap

Result(status, tag, arg) == [status |-> status, tag |-> tag, arg |-> arg]

Min(a, b) == IF a <= b THEN a ELSE b

\* ------------------------------------------------------------------ state
VARIABLES
  api_run_active,      \* self.api_run_active
  stop_event,          \* self.stop_event
  pc,                  \* position of the worker thread
  doc_ids,             \* the batch, in order
  baseline_snapshots,  \* id -> snapshot taken before the run
  idx,                 \* position of the current for-loop over doc_ids
  submitted_tasks,     \* sequence of [id, task_id]
  no_task_baselines,   \* ordered dict id -> snapshot
  doc_results,         \* id -> [status, tag, arg]
  task_idx,            \* position of the loop over submitted_tasks
  poll_state,          \* state returned by _poll_task_until_terminal
  pending,             \* _poll_no_task_reprocess_diffs: ordered dict
  keys,                \* list(pending.keys()) of the running for-loop
  key_idx,             \* position in keys
  current_doc,         \* last document fetched by the diff poll
  elapsed,             \* time.monotonic() - start_ts, capped at the ceiling
  observed_ids,
  no_observed_diff_ids,
  stopped_ids,
  accepted_no_task_count,
  accepted_no_task_observed,
  accepted_no_task_no_diff,
  archive_rows,        \* HistoryRows of this run
  success_count,
  fail_count,
  history,             \* the append-only history log
  summary,             \* the emitted "Summary:" line
  crashed,             \* exception text caught by the worker's outer except
  submit_log,          \* ids for which the POST was issued, in order
  stop_at,             \* where the worker was when stop_run set the flag
  results_at_stop,     \* doc_results when stop_run set the flag
  task_payload,        \* _poll_task_until_terminal: the answer just received
  export_active,       \* self.export_active
  export_pc,           \* position of the export worker thread
  export_ids,          \* the ids handed to the export
  export_idx,          \* position of the export loop
  ok_count,            \* export worker: ids exported
  export_fail_count,   \* export worker: ids that failed
  rejected,            \* the run requests turned down so far
  sync_pc,             \* init_ocr_tracking_db.main: position of the sync run
  docs,                \* main: the documents fetch_all_documents returned
  now_iso,             \* main: the run's timestamp, a tick of the clock
  run_id,              \* main: id of the runs row of this run
  doc_i,               \* run_sync: position of the loop over docs
  new_count,
  changed_count,
  unchanged_count,
  missing_count,
  runs,                \* table runs as the connection sees it
  tracked_documents,   \* table tracked_documents: paperless_id -> row
  document_classifications, \* table document_classifications: set of rows
  committed,           \* the three tables as of the last commit
  raised_at,           \* the statement whose exception main caught
  before_run,          \* the three tables when the run connected
  last_observed,       \* docs of the last run that committed
  fingerprint_calls,   \* the calls of stable_fingerprint: record and digest
  run_candidates,      \* refresh_candidates: its last call and selection
  prospective_rows,    \* refresh_prospective: its last call and its rows
  api_pages,           \* fetch_all_documents: the pages the API serves
  page_no,             \* fetch_all_documents: pages fetched so far
  fetched,             \* fetch_all_documents: its list docs
  fetch_outcome,       \* fetch_all_documents: fetching, returned or raised
  llm_pc,              \* position of the LLM request of one document
  retry_attempts,      \* _llm_post_json: its parameter
  attempt,             \* _llm_post_json: the loop variable
  llm_responses,       \* what the LLM API answered, attempt after attempt
  llm_status,          \* _run_llm_ocr_worker: status of the document
  history_file_lock,   \* self.history_file_lock: the thread holding it, or ""
  history_file,        \* the lines of the history file
  thread_pc,           \* thread -> where it is in its append or read
  written,             \* appending thread -> rows of its batch written
  lines_read,          \* the reading thread: lines read in this read
  loaded,              \* the row lists _load_api_history_rows returned
  stop_ignored,        \* stop_run found nothing to stop
  workers,             \* the worker threads started so far: engine, position
  log_queue,           \* self.log_queue: the lines emitted and not yet drained
  run_total,           \* self.run_total
  run_completed_ids    \* self.run_completed_ids

vars ==
  << api_run_active, stop_event, pc, doc_ids, baseline_snapshots, idx,
     submitted_tasks, no_task_baselines, doc_results, task_idx, poll_state,
     pending, keys, key_idx, current_doc, elapsed, observed_ids,
     no_observed_diff_ids, stopped_ids, accepted_no_task_count,
     accepted_no_task_observed, accepted_no_task_no_diff, archive_rows,
     success_count, fail_count, history, summary, crashed, submit_log,
     stop_at, results_at_stop, task_payload, export_active, export_pc,
     export_ids, export_idx, ok_count, export_fail_count, rejected,
     sync_pc, docs, now_iso, run_id, doc_i, new_count, changed_count,
     unchanged_count, missing_count, runs, tracked_documents,
     document_classifications, committed, raised_at, before_run,
     last_observed, fingerprint_calls, run_candidates, prospective_rows,
     api_pages, page_no, fetched, fetch_outcome, llm_pc, retry_attempts,
     attempt, llm_responses, llm_status, history_file_lock, history_file,
     thread_pc, written, lines_read, loaded, stop_ignored,
     workers, log_queue, run_total, run_completed_ids >>

\* The sync run of init_ocr_tracking_db and its database.
syncVars ==
  << sync_pc, docs, now_iso, run_id, doc_i, new_count, changed_count,
     unchanged_count, missing_count, runs, tracked_documents,
     document_classifications, committed, raised_at, before_run,
     last_observed >>

\* The export run and the log of rejected requests.
exportVars ==
  << export_active, export_pc, export_ids, export_idx, ok_count,
     export_fail_count >>

\* Locals of the worker and of the two poll functions.
workerLocals ==
  << submitted_tasks, no_task_baselines, doc_results, task_idx, poll_state,
     pending, keys, key_idx, current_doc, elapsed, observed_ids,
     no_observed_diff_ids, stopped_ids, accepted_no_task_count,
     accepted_no_task_observed, accepted_no_task_no_diff, archive_rows,
     success_count, fail_count >>

\* The dashboard: the reprocess run, the export run and the requests.
dashboardVars ==
  << api_run_active, stop_event, pc, doc_ids, baseline_snapshots, idx,
     workerLocals, history, summary, crashed, submit_log, stop_at,
     results_at_stop, task_payload, exportVars, rejected >>

\* The functions called on their own, outside a run.
\* A fetch of the document list.
fetchVars == << api_pages, page_no, fetched, fetch_outcome >>

\* The LLM request of one document.
llmVars == << llm_pc, retry_attempts, attempt, llm_responses, llm_status >>

\* What the dashboard's UI thread keeps besides the run.
\* The progress display and the queue of emitted lines.
progressVars == << log_queue, run_total, run_completed_ids >>

uiVars == << stop_ignored, workers, progressVars >>

\* The history file and the threads that append to it and read it.
lockVars ==
  << history_file_lock, history_file, thread_pc, written, lines_read, loaded >>

toolVars ==
  << fingerprint_calls, run_candidates, prospective_rows, fetchVars,
     llmVars, lockVars, uiVars >>

\* The three tables right after create_schema on a new database file.
EmptyDb ==
  [runs |-> << >>, tracked_documents |-> << >>,
   document_classifications |-> {}]

NoSummary ==
  [success |-> 0, failed |-> 0, total |-> 0, emitted |-> FALSE, detail |-> None]
NotStopped == [pc |-> "none", idx |-> 0, task_idx |-> 0]

Init ==
  /\ api_run_active = FALSE
  /\ stop_event = FALSE
  /\ pc = "idle"
  /\ doc_ids = << >>
  /\ baseline_snapshots = << >>
  /\ idx = 0
  /\ submitted_tasks = << >>
  /\ no_task_baselines = << >>
  /\ doc_results = << >>
  /\ task_idx = 0
  /\ poll_state = ""
  /\ pending = << >>
  /\ keys = << >>
  /\ key_idx = 0
  /\ current_doc = None
  /\ elapsed = 0
  /\ observed_ids = {}
  /\ no_observed_diff_ids = {}
  /\ stopped_ids = {}
  /\ accepted_no_task_count = 0
  /\ accepted_no_task_observed = 0
  /\ accepted_no_task_no_diff = 0
  /\ archive_rows = << >>
  /\ success_count = 0
  /\ fail_count = 0
  /\ history = << >>
  /\ summary = NoSummary
  /\ crashed = ""
  /\ submit_log = << >>
  /\ stop_at = NotStopped
  /\ results_at_stop = << >>
  /\ task_payload = None
  /\ export_active = FALSE
  /\ export_pc = "idle"
  /\ export_ids = << >>
  /\ export_idx = 0
  /\ ok_count = 0
  /\ export_fail_count = 0
  /\ rejected = {}
  /\ sync_pc = "idle"
  /\ docs = << >>
  /\ now_iso = 0
  /\ run_id = 0
  /\ doc_i = 0
  /\ new_count = 0
  /\ changed_count = 0
  /\ unchanged_count = 0
  /\ missing_count = 0
  /\ runs = << >>
  /\ tracked_documents = << >>
  /\ document_classifications = {}
  /\ committed = EmptyDb
  /\ raised_at = ""
  /\ before_run = EmptyDb
  /\ last_observed = None
  /\ fingerprint_calls = << >>
  /\ run_candidates = None
  /\ prospective_rows = None
  /\ api_pages = << >>
  /\ page_no = 0
  /\ fetched = << >>
  /\ fetch_outcome = ""
  /\ llm_pc = "idle"
  /\ retry_attempts = 0
  /\ attempt = 0
  /\ llm_responses = << >>
  /\ llm_status = ""
  /\ history_file_lock = ""
  /\ history_file = << >>
  /\ thread_pc = [ t \in Threads |-> "start" ]
  /\ written = [ t \in Appenders |-> 0 ]
  /\ lines_read = << >>
  /\ loaded = << >>
  /\ stop_ignored = FALSE
  /\ workers = << >>
  /\ log_queue = << >>
  /\ run_total = 0
  /\ run_completed_ids = {}

\* ---------------------------------------------------------------- UI thread
\* Faulty variant of run_selected_ocr: a running export does not turn the
\* request down.
run_selected_ocr_NoExportCheck(batch, base) ==
  /\ pc = "idle"
  /\ ~api_run_active
  /\ doc_ids' = batch
  /\ baseline_snapshots' = [ d \in Range(batch) |-> _extract_doc_snapshot(base[d]) ]
  /\ stop_event' = FALSE
  /\ api_run_active' = TRUE
  /\ submitted_tasks' = << >>
  /\ no_task_baselines' = << >>
  /\ doc_results' = [ d \in Range(batch) |-> Result("pending", "not_submitted", "") ]
  /\ archive_rows' = << >>
  /\ success_count' = 0
  /\ fail_count' = 0
  /\ accepted_no_task_count' = 0
  /\ accepted_no_task_observed' = 0
  /\ accepted_no_task_no_diff' = 0
  /\ idx' = 1
  /\ pc' = "submit_check"
  /\ UNCHANGED << task_idx, poll_state, pending, keys, key_idx, current_doc,
                  elapsed, observed_ids, no_observed_diff_ids, stopped_ids,
                  history, summary, crashed, submit_log, stop_at,
                  results_at_stop >>

\* Faulty variant of run_selected_ocr: the cancellation flag is left as it
\* is.
run_selected_ocr_KeepFlag(batch, base) ==
  /\ pc = "idle"
  /\ ~export_active
  /\ ~api_run_active
  /\ doc_ids' = batch
  /\ baseline_snapshots' = [ d \in Range(batch) |-> _extract_doc_snapshot(base[d]) ]
  /\ UNCHANGED stop_event
  /\ api_run_active' = TRUE
  /\ submitted_tasks' = << >>
  /\ no_task_baselines' = << >>
  /\ doc_results' = [ d \in Range(batch) |-> Result("pending", "not_submitted", "") ]
  /\ archive_rows' = << >>
  /\ success_count' = 0
  /\ fail_count' = 0
  /\ accepted_no_task_count' = 0
  /\ accepted_no_task_observed' = 0
  /\ accepted_no_task_no_diff' = 0
  /\ idx' = 1
  /\ pc' = "submit_check"
  /\ UNCHANGED << task_idx, poll_state, pending, keys, key_idx, current_doc,
                  elapsed, observed_ids, no_observed_diff_ids, stopped_ids,
                  history, summary, crashed, submit_log, stop_at,
                  results_at_stop >>

\* run_selected_ocr (paperless engine): accept the selected rows as a run,
\* clear the cancellation flag, mark the run active and start the worker,
\* whose locals are initialised at its entry.  A request made while an
\* export or a run is active is turned down (run_selected_ocr_rejected).
run_selected_ocr(batch, base) ==
  /\ pc = "idle"
  /\ ~export_active
  /\ ~api_run_active
  /\ doc_ids' = batch
  /\ baseline_snapshots' = [ d \in Range(batch) |-> _extract_doc_snapshot(base[d]) ]
  /\ stop_event' = FALSE
  /\ api_run_active' = TRUE
  /\ submitted_tasks' = << >>
  /\ no_task_baselines' = << >>
  /\ doc_results' = [ d \in Range(batch) |-> Result("pending", "not_submitted", "") ]
  /\ archive_rows' = << >>
  /\ success_count' = 0
  /\ fail_count' = 0
  /\ accepted_no_task_count' = 0
  /\ accepted_no_task_observed' = 0
  /\ accepted_no_task_no_diff' = 0
  /\ idx' = 1
  /\ pc' = "submit_check"
  /\ UNCHANGED << task_idx, poll_state, pending, keys, key_idx, current_doc,
                  elapsed, observed_ids, no_observed_diff_ids, stopped_ids,
                  history, summary, crashed, submit_log, stop_at,
                  results_at_stop >>

\* run_selected_ocr while an export or a run is active: a message box and
\* nothing else.
run_selected_ocr_rejected ==
  /\ export_active \/ api_run_active
  /\ rejected' = rejected \cup {"run_selected_ocr"}
  /\ UNCHANGED << api_run_active, stop_event, pc, doc_ids, baseline_snapshots,
                  idx, workerLocals, history, summary, crashed, submit_log,
                  stop_at, results_at_stop, task_payload, exportVars, syncVars, toolVars >>

\* _export_documents_to_rag: accept the ids as an export, clear the
\* cancellation flag, mark the export active and start its worker.
_export_documents_to_rag(ids) ==
  /\ export_pc = "idle"
  /\ ~export_active
  /\ ~api_run_active
  /\ stop_event' = FALSE
  /\ export_active' = TRUE
  /\ export_ids' = ids
  /\ export_idx' = 1
  /\ ok_count' = 0
  /\ export_fail_count' = 0
  /\ export_pc' = "export_check"
  /\ UNCHANGED << api_run_active, pc, doc_ids, baseline_snapshots, idx,
                  workerLocals, history, summary, crashed, submit_log, stop_at,
                  results_at_stop, task_payload, rejected, syncVars, toolVars >>

\* _export_documents_to_rag while an export or a run is active.
_export_documents_to_rag_rejected ==
  /\ export_active \/ api_run_active
  /\ rejected' = rejected \cup {"_export_documents_to_rag"}
  /\ UNCHANGED << api_run_active, stop_event, pc, doc_ids, baseline_snapshots,
                  idx, workerLocals, history, summary, crashed, submit_log,
                  stop_at, results_at_stop, task_payload, exportVars, syncVars, toolVars >>

\* stop_run while neither a run nor an export is active: a message and
\* nothing else.
stop_run_ignored ==
  /\ ~api_run_active
  /\ ~export_active
  /\ stop_ignored' = TRUE
  /\ UNCHANGED << api_run_active, stop_event, pc, doc_ids, baseline_snapshots,
                  idx, workerLocals, history, summary, crashed, submit_log,
                  stop_at, results_at_stop, task_payload, exportVars, rejected,
                  syncVars, fingerprint_calls, run_candidates, prospective_rows,
                  fetchVars, llmVars, lockVars, workers, progressVars >>

\* stop_run: set the flag while a run is active.
stop_run ==
  /\ api_run_active \/ export_active
  /\ stop_event' = TRUE
  /\ stop_at' = IF stop_event THEN stop_at
                ELSE [pc |-> pc, idx |-> idx, task_idx |-> task_idx]
  /\ results_at_stop' = IF stop_event THEN results_at_stop ELSE doc_results
  /\ UNCHANGED << api_run_active, pc, doc_ids, baseline_snapshots, idx,
                  workerLocals, history, summary, crashed, submit_log >>

\* ------------------------------------------------------ phase 1: submission
\* Faulty variant of SubmitCheck: the loop does not look at the flag.
SubmitCheck_IgnoreStop ==
  /\ pc = "submit_check"
  /\ IF idx > Len(doc_ids)
       THEN /\ pc' = "poll_loop"
            /\ task_idx' = 1
       ELSE /\ pc' = "submit_call"
            /\ UNCHANGED task_idx
  /\ UNCHANGED << api_run_active, stop_event, doc_ids, baseline_snapshots, idx,
                  submitted_tasks, no_task_baselines, doc_results, poll_state,
                  pending, keys, key_idx, current_doc, elapsed, observed_ids,
                  no_observed_diff_ids, stopped_ids, accepted_no_task_count,
                  accepted_no_task_observed, accepted_no_task_no_diff,
                  archive_rows, success_count, fail_count, history, summary,
                  crashed, submit_log, stop_at, results_at_stop >>

\* Head of the submission loop: end of the batch, or the cancellation check.
SubmitCheck ==
  /\ pc = "submit_check"
  /\ IF idx > Len(doc_ids) \/ stop_event
       THEN /\ pc' = "poll_loop"
            /\ task_idx' = 1
       ELSE /\ pc' = "submit_call"
            /\ UNCHANGED task_idx
  /\ UNCHANGED << api_run_active, stop_event, doc_ids, baseline_snapshots, idx,
                  submitted_tasks, no_task_baselines, doc_results, poll_state,
                  pending, keys, key_idx, current_doc, elapsed, observed_ids,
                  no_observed_diff_ids, stopped_ids, accepted_no_task_count,
                  accepted_no_task_observed, accepted_no_task_no_diff,
                  archive_rows, success_count, fail_count, history, summary,
                  crashed, submit_log, stop_at, results_at_stop >>

\* Faulty variant of SubmitPayload: an id that got a task id is queued for
\* diff observation as well.
SubmitPayload_AlsoObserved(doc_id, payload) ==
  LET task_ids == _extract_task_ids(payload)
  IN  IF task_ids = << >>
        THEN /\ doc_results' =
                  [doc_results EXCEPT ![doc_id] =
                     Result("failed", "no_task_id_payload", payload.result)]
             /\ UNCHANGED << accepted_no_task_count, no_task_baselines,
                             submitted_tasks >>
        ELSE /\ submitted_tasks' =
                  Append(submitted_tasks, [id |-> doc_id, task_id |-> task_ids[1]])
             /\ no_task_baselines' =
                  Append(no_task_baselines,
                         [id |-> doc_id, snap |-> baseline_snapshots[doc_id]])
             /\ doc_results' =
                  [doc_results EXCEPT ![doc_id] = Result("pending", "task_id", task_ids[1])]
             /\ UNCHANGED accepted_no_task_count

\* The POST answered with a payload.
SubmitPayload(doc_id, payload) ==
  LET task_ids == _extract_task_ids(payload)
      result_value == IF payload.is_dict THEN StripUpper(payload.result) ELSE ""
  IN  IF task_ids = << >>
        THEN IF result_value = "OK"
               THEN /\ accepted_no_task_count' = accepted_no_task_count + 1
                    /\ no_task_baselines' =
                         Append(no_task_baselines,
                                [id |-> doc_id, snap |-> baseline_snapshots[doc_id]])
                    /\ doc_results' =
                         [doc_results EXCEPT ![doc_id] =
                            Result("pending", "accepted_by_api_no_task_id", "")]
                    /\ UNCHANGED submitted_tasks
               ELSE /\ doc_results' =
                         [doc_results EXCEPT ![doc_id] =
                            Result("failed", "no_task_id_payload", payload.result)]
                    /\ UNCHANGED << accepted_no_task_count, no_task_baselines,
                                    submitted_tasks >>
        ELSE /\ submitted_tasks' =
                  Append(submitted_tasks, [id |-> doc_id, task_id |-> task_ids[1]])
             /\ doc_results' =
                  [doc_results EXCEPT ![doc_id] = Result("pending", "task_id", task_ids[1])]
             /\ UNCHANGED << accepted_no_task_count, no_task_baselines >>

\* The POST raised.
SubmitError(doc_id, exc) ==
  /\ doc_results' = [doc_results EXCEPT ![doc_id] = Result("failed", "submit_error", exc)]
  /\ UNCHANGED << accepted_no_task_count, no_task_baselines, submitted_tasks >>

\* Faulty variant of SubmitCall: a POST that raises ends the submission loop.
SubmitCall_AbortOnError ==
  /\ pc = "submit_call"
  /\ submit_log' = Append(submit_log, doc_ids[idx])
  /\ \/ /\ \E payload \in SubmitPayloads : SubmitPayload(doc_ids[idx], payload)
        /\ idx' = idx + 1
        /\ pc' = "submit_check"
        /\ UNCHANGED task_idx
     \/ /\ \E exc \in Exceptions : SubmitError(doc_ids[idx], exc)
        /\ idx' = idx + 1
        /\ pc' = "poll_loop"
        /\ task_idx' = 1
  /\ UNCHANGED << api_run_active, stop_event, doc_ids, baseline_snapshots,
                  poll_state, pending, keys, key_idx, current_doc,
                  elapsed, observed_ids, no_observed_diff_ids, stopped_ids,
                  accepted_no_task_observed, accepted_no_task_no_diff,
                  archive_rows, success_count, fail_count, history, summary,
                  crashed, stop_at, results_at_stop >>

\* Body of the submission loop for doc_ids[idx].
SubmitCall ==
  /\ pc = "submit_call"
  /\ submit_log' = Append(submit_log, doc_ids[idx])
  /\ \/ \E payload \in SubmitPayloads : SubmitPayload(doc_ids[idx], payload)
     \/ \E exc \in Exceptions : SubmitError(doc_ids[idx], exc)
  /\ idx' = idx + 1
  /\ pc' = "submit_check"
  /\ UNCHANGED << api_run_active, stop_event, doc_ids, baseline_snapshots,
                  task_idx, poll_state, pending, keys, key_idx, current_doc,
                  elapsed, observed_ids, no_observed_diff_ids, stopped_ids,
                  accepted_no_task_observed, accepted_no_task_no_diff,
                  archive_rows, success_count, fail_count, history, summary,
                  crashed, stop_at, results_at_stop >>

\* ---------------------------------------------------- phase 2: task polling
\* Head of the loop over submitted_tasks: end of the queue, or cancellation.
PollLoop ==
  /\ pc = "poll_loop"
  /\ IF task_idx > Len(submitted_tasks) \/ stop_event
       THEN pc' = "diff_start"
       ELSE pc' = "poll_inner_check"
  /\ UNCHANGED << api_run_active, stop_event, doc_ids, baseline_snapshots, idx,
                  workerLocals, history, summary, crashed, submit_log, stop_at,
                  results_at_stop >>

\* Faulty variant of PollInnerCheck: the poll loop does not look at the
\* cancellation flag.
PollInnerCheck_IgnoreStop ==
  /\ pc = "poll_inner_check"
  /\ pc' = "poll_get"
  /\ UNCHANGED << api_run_active, stop_event, doc_ids, baseline_snapshots, idx,
                  workerLocals, history, summary, crashed, submit_log, stop_at,
                  results_at_stop >>

\* _poll_task_until_terminal, head of its while loop.
PollInnerCheck ==
  /\ pc = "poll_inner_check"
  /\ IF stop_event
       THEN /\ poll_state' = "ABORTED"
            /\ pc' = "poll_return"
       ELSE /\ pc' = "poll_get"
            /\ UNCHANGED poll_state
  /\ UNCHANGED << api_run_active, stop_event, doc_ids, baseline_snapshots, idx,
                  submitted_tasks, no_task_baselines, doc_results, task_idx,
                  pending, keys, key_idx, current_doc, elapsed, observed_ids,
                  no_observed_diff_ids, stopped_ids, accepted_no_task_count,
                  accepted_no_task_observed, accepted_no_task_no_diff,
                  archive_rows, success_count, fail_count, history, summary,
                  crashed, submit_log, stop_at, results_at_stop >>

\* The task query answered: return on a terminal state, else sleep and loop.
PollAnswer(payload) ==
  LET state == _task_state_from_payload(payload)
      state_class == _classify_task_state(state)
  IN  /\ IF state_class \in {"success", "failure"}
           THEN /\ poll_state' = state
                /\ pc' = "poll_return"
           ELSE /\ pc' = "poll_inner_check"
                /\ UNCHANGED poll_state
      /\ UNCHANGED crashed

\* The task query raised: nothing between the call and the worker's outer
\* except clause catches it.
PollError(exc) ==
  /\ crashed' = exc
  /\ pc' = "finally"
  /\ UNCHANGED poll_state

PollGet ==
  /\ pc = "poll_get"
  /\ \/ \E payload \in TaskPayloads : PollAnswer(payload)
     \/ \E exc \in Exceptions : PollError(exc)
  /\ UNCHANGED << api_run_active, stop_event, doc_ids, baseline_snapshots, idx,
                  submitted_tasks, no_task_baselines, doc_results, task_idx,
                  pending, keys, key_idx, current_doc, elapsed, observed_ids,
                  no_observed_diff_ids, stopped_ids, accepted_no_task_count,
                  accepted_no_task_observed, accepted_no_task_no_diff,
                  archive_rows, success_count, fail_count, history, summary,
                  submit_log, stop_at, results_at_stop >>

\* The same step over every answer of the task endpoint, the answer kept
\* in view.
PollGetAny ==
  /\ pc = "poll_get"
  /\ \/ \E payload \in AllTaskPayloads :
          /\ PollAnswer(payload)
          /\ task_payload' = Some(payload)
     \/ \E exc \in Exceptions :
          /\ PollError(exc)
          /\ task_payload' = None
  /\ UNCHANGED << api_run_active, stop_event, doc_ids, baseline_snapshots, idx,
                  submitted_tasks, no_task_baselines, doc_results, task_idx,
                  pending, keys, key_idx, current_doc, elapsed, observed_ids,
                  no_observed_diff_ids, stopped_ids, accepted_no_task_count,
                  accepted_no_task_observed, accepted_no_task_no_diff,
                  archive_rows, success_count, fail_count, history, summary,
                  submit_log, stop_at, results_at_stop, exportVars, rejected, syncVars, toolVars >>

\* Back in the worker with the poll's result.
PollReturn ==
  /\ pc = "poll_return"
  /\ IF stop_event
       THEN /\ pc' = "diff_start"
            /\ UNCHANGED << doc_results, task_idx >>
       ELSE /\ doc_results' =
                 [doc_results EXCEPT ![submitted_tasks[task_idx].id] =
                    IF _classify_task_state(poll_state) = "success"
                      THEN Result("success", "task_state", poll_state)
                      ELSE Result("failed", "task_state", poll_state)]
            /\ task_idx' = task_idx + 1
            /\ pc' = "poll_loop"
  /\ UNCHANGED << api_run_active, stop_event, doc_ids, baseline_snapshots, idx,
                  submitted_tasks, no_task_baselines, poll_state,
                  pending, keys, key_idx, current_doc, elapsed, observed_ids,
                  no_observed_diff_ids, stopped_ids, accepted_no_task_count,
                  accepted_no_task_observed, accepted_no_task_no_diff,
                  archive_rows, success_count, fail_count, history, summary,
                  crashed, submit_log, stop_at, results_at_stop >>

\* ------------------------------------------- phase 3: diff-observation poll
\* Time that passes between two readings of the clock in the diff poll:
\* at least one sleep of the poll interval, sampled as half a window and a
\* full window.
SleepAdvances ==
  { d \in {NO_TASK_DIFF_MAX_WAIT_SECONDS \div 2, NO_TASK_DIFF_MAX_WAIT_SECONDS} :
      d >= NO_TASK_DIFF_POLL_INTERVAL_SECONDS }

\* Enter _poll_no_task_reprocess_diffs when some id was accepted without a
\* task id.
DiffStart ==
  /\ pc = "diff_start"
  /\ IF no_task_baselines # << >>
       THEN /\ pending' = no_task_baselines
            /\ observed_ids' = {}
            /\ no_observed_diff_ids' = {}
            /\ stopped_ids' = {}
            /\ elapsed' = 0
            /\ pc' = "diff_while"
            /\ UNCHANGED idx
       ELSE /\ pc' = "finalize"
            /\ idx' = 1
            /\ UNCHANGED << pending, observed_ids, no_observed_diff_ids,
                            stopped_ids, elapsed >>
  /\ UNCHANGED << api_run_active, stop_event, doc_ids, baseline_snapshots,
                  submitted_tasks, no_task_baselines, doc_results, task_idx,
                  poll_state, keys, key_idx, current_doc,
                  accepted_no_task_count, accepted_no_task_observed,
                  accepted_no_task_no_diff, archive_rows, success_count,
                  fail_count, history, summary, crashed, submit_log, stop_at,
                  results_at_stop >>

\* Head of the while loop: condition, ceiling, start of the pass over pending.
DiffWhile ==
  /\ pc = "diff_while"
  /\ IF pending # << >> /\ ~stop_event /\ elapsed < NO_TASK_DIFF_MAX_WAIT_SECONDS
       THEN /\ keys' = Keys(pending)
            /\ key_idx' = 1
            /\ pc' = "diff_for"
       ELSE /\ pc' = "diff_exit"
            /\ UNCHANGED << keys, key_idx >>
  /\ UNCHANGED << api_run_active, stop_event, doc_ids, baseline_snapshots, idx,
                  submitted_tasks, no_task_baselines, doc_results, task_idx,
                  poll_state, pending, current_doc, elapsed, observed_ids,
                  no_observed_diff_ids, stopped_ids, accepted_no_task_count,
                  accepted_no_task_observed, accepted_no_task_no_diff,
                  archive_rows, success_count, fail_count, history, summary,
                  crashed, submit_log, stop_at, results_at_stop >>

\* Faulty variant of DiffFor: the for loop does not look at the
\* cancellation flag.
DiffFor_IgnoreStop ==
  /\ pc = "diff_for"
  /\ IF key_idx > Len(keys)
       THEN pc' = "diff_sleep"
       ELSE pc' = "diff_fetch"
  /\ current_doc' = None
  /\ UNCHANGED << api_run_active, stop_event, doc_ids, baseline_snapshots, idx,
                  submitted_tasks, no_task_baselines, doc_results, task_idx,
                  poll_state, pending, keys, key_idx, elapsed, observed_ids,
                  no_observed_diff_ids, stopped_ids, accepted_no_task_count,
                  accepted_no_task_observed, accepted_no_task_no_diff,
                  archive_rows, success_count, fail_count, history, summary,
                  crashed, submit_log, stop_at, results_at_stop >>

\* Head of the for loop over the pending ids.
DiffFor ==
  /\ pc = "diff_for"
  /\ IF key_idx > Len(keys) \/ stop_event
       THEN pc' = "diff_sleep"
       ELSE pc' = "diff_fetch"
  /\ current_doc' = None
  /\ UNCHANGED << api_run_active, stop_event, doc_ids, baseline_snapshots, idx,
                  submitted_tasks, no_task_baselines, doc_results, task_idx,
                  poll_state, pending, keys, key_idx, elapsed, observed_ids,
                  no_observed_diff_ids, stopped_ids, accepted_no_task_count,
                  accepted_no_task_observed, accepted_no_task_no_diff,
                  archive_rows, success_count, fail_count, history, summary,
                  crashed, submit_log, stop_at, results_at_stop >>

\* The refetch answered: compare with the baseline.
DiffFetched(doc_id, doc) ==
  LET before == Get(pending, doc_id)
      after == _extract_doc_snapshot(doc)
      changed_fields == _diff_snapshot(before, after)
  IN  /\ current_doc' = Some(doc)
      /\ IF changed_fields # << >>
           THEN /\ observed_ids' = observed_ids \cup {doc_id}
                /\ pending' = Pop(pending, doc_id)
           ELSE UNCHANGED << observed_ids, pending >>

\* Body of the for loop for keys[key_idx]; a failed refetch is skipped.
DiffFetch ==
  /\ pc = "diff_fetch"
  /\ \/ \E doc \in Docs : DiffFetched(keys[key_idx], doc)
     \/ \E exc \in Exceptions : UNCHANGED << current_doc, observed_ids, pending >>
  /\ key_idx' = key_idx + 1
  /\ pc' = "diff_for"
  /\ UNCHANGED << api_run_active, stop_event, doc_ids, baseline_snapshots, idx,
                  submitted_tasks, no_task_baselines, doc_results, task_idx,
                  poll_state, keys, elapsed, no_observed_diff_ids, stopped_ids,
                  accepted_no_task_count, accepted_no_task_observed,
                  accepted_no_task_no_diff, archive_rows, success_count,
                  fail_count, history, summary, crashed, submit_log, stop_at,
                  results_at_stop >>

\* End of a pass: sleep when something is still pending and no stop is seen.
DiffSleep ==
  /\ pc = "diff_sleep"
  /\ IF pending # << >> /\ ~stop_event
       THEN \E d \in SleepAdvances :
              elapsed' = Min(elapsed + d, NO_TASK_DIFF_MAX_WAIT_SECONDS)
       ELSE UNCHANGED elapsed
  /\ pc' = "diff_while"
  /\ UNCHANGED << api_run_active, stop_event, doc_ids, baseline_snapshots, idx,
                  submitted_tasks, no_task_baselines, doc_results, task_idx,
                  poll_state, pending, keys, key_idx, current_doc, observed_ids,
                  no_observed_diff_ids, stopped_ids, accepted_no_task_count,
                  accepted_no_task_observed, accepted_no_task_no_diff,
                  archive_rows, success_count, fail_count, history, summary,
                  crashed, submit_log, stop_at, results_at_stop >>

\* Faulty variant of ApplyDiffResults: an id without observed diff is a failure.
ApplyDiffResults_NoDiffFails(results, observed, no_diff, stopped) ==
  [ d \in DOMAIN results |->
      IF d \in stopped THEN Result("failed", "stopped_before_diff_observation", "")
      ELSE IF d \in no_diff THEN Result("failed", "accepted_no_observed_diff", "")
      ELSE IF d \in observed THEN Result("success", "observed_change_via_diff", "")
      ELSE results[d] ]

\* The worker's use of the three returned sets.
ApplyDiffResults(results, observed, no_diff, stopped) ==
  [ d \in DOMAIN results |->
      IF d \in stopped THEN Result("failed", "stopped_before_diff_observation", "")
      ELSE IF d \in no_diff THEN Result("success", "accepted_no_observed_diff", "")
      ELSE IF d \in observed THEN Result("success", "observed_change_via_diff", "")
      ELSE results[d] ]

\* Faulty variant of StoppedOnExit: the flag is not looked at after the loop.
StoppedOnExit_Never(stop, pend) == {}

\* Faulty variant of NoDiffOnExit: the ids left at the ceiling are not
\* accepted.
NoDiffOnExit_Never(stop, pend) == {}

\* After the while loop: the ids still pending are stopped when the flag is
\* set, otherwise accepted without observed diff.
StoppedOnExit(stop, pend) == IF stop THEN Range(Keys(pend)) ELSE {}
NoDiffOnExit(stop, pend) == IF stop THEN {} ELSE Range(Keys(pend))

\* Tail of _poll_no_task_reprocess_diffs and the worker's recording of its
\* result.
DiffExit ==
  /\ pc = "diff_exit"
  /\ stopped_ids' = StoppedOnExit(stop_event, pending)
  /\ no_observed_diff_ids' = NoDiffOnExit(stop_event, pending)
  /\ pending' = IF stop_event THEN pending ELSE << >>
  /\ accepted_no_task_observed' = Cardinality(observed_ids)
  /\ accepted_no_task_no_diff' = Cardinality(no_observed_diff_ids')
  /\ doc_results' =
       ApplyDiffResults(doc_results, observed_ids, no_observed_diff_ids', stopped_ids')
  /\ idx' = 1
  /\ pc' = "finalize"
  /\ UNCHANGED << api_run_active, stop_event, doc_ids, baseline_snapshots,
                  submitted_tasks, no_task_baselines, task_idx, poll_state,
                  keys, key_idx, current_doc, elapsed, observed_ids,
                  accepted_no_task_count, archive_rows, success_count,
                  fail_count, history, summary, crashed, submit_log, stop_at,
                  results_at_stop >>

\* ---------------------------------------------------- phase 4: finalization
\* Faulty variant of ForcedResult: the stop flag is not looked at.
ForcedResult_NoStopDetail(stop) ==
  Result("failed", "incomplete_without_terminal_status", "")

\* The forced result of an id that is still pending.
ForcedResult(stop) ==
  IF stop THEN Result("failed", "stopped_before_completion", "")
  ELSE Result("failed", "incomplete_without_terminal_status", "")

\* Faulty variant of FinalizeOne: an id that is still pending is left so.
FinalizeOne_KeepPending(doc_id) == UNCHANGED doc_results

\* Faulty variant of FinalizeOne: the pending test is missing.
FinalizeOne_Overwrite(doc_id) ==
  doc_results' = [doc_results EXCEPT ![doc_id] = ForcedResult(stop_event)]

\* One iteration of the loop that forces every pending id to failed.
FinalizeOne(doc_id) ==
  IF doc_results[doc_id].status # "pending"
    THEN UNCHANGED doc_results
    ELSE doc_results' = [doc_results EXCEPT ![doc_id] = ForcedResult(stop_event)]

Finalize ==
  /\ pc = "finalize"
  /\ IF idx > Len(doc_ids)
       THEN /\ pc' = "record"
            /\ idx' = 1
            /\ UNCHANGED doc_results
       ELSE /\ FinalizeOne(doc_ids[idx])
            /\ idx' = idx + 1
            /\ UNCHANGED pc
  /\ UNCHANGED << api_run_active, stop_event, doc_ids, baseline_snapshots,
                  submitted_tasks, no_task_baselines, task_idx, poll_state,
                  pending, keys, key_idx, current_doc, elapsed, observed_ids,
                  no_observed_diff_ids, stopped_ids, accepted_no_task_count,
                  accepted_no_task_observed, accepted_no_task_no_diff,
                  archive_rows, success_count, fail_count, history, summary,
                  crashed, submit_log, stop_at, results_at_stop >>

\* Faulty variant of HistoryRow: a failed refetch turns the row into a
\* failure.
HistoryRow_FetchErrorFails(doc_id, post_len, fetch_failed) ==
  LET pre_len == baseline_snapshots[doc_id].content_length
  IN  [ id |-> doc_id,
        pre_content_length |-> pre_len,
        post_content_length |-> post_len,
        content_delta |-> post_len - pre_len,
        status |-> IF doc_results[doc_id].status = "success" /\ ~fetch_failed
                     THEN "success" ELSE "failed",
        tag |-> doc_results[doc_id].tag,
        arg |-> doc_results[doc_id].arg,
        post_fetch_error |-> fetch_failed,
        source |-> "api_bulk_reprocess" ]

\* The HistoryRow of one id; post_len is the refetched content length, or
\* the pre-run one when the refetch failed.
HistoryRow(doc_id, post_len, fetch_failed) ==
  LET pre_len == baseline_snapshots[doc_id].content_length
  IN  [ id |-> doc_id,
        pre_content_length |-> pre_len,
        post_content_length |-> post_len,
        content_delta |-> post_len - pre_len,
        status |-> IF doc_results[doc_id].status = "success" THEN "success" ELSE "failed",
        tag |-> doc_results[doc_id].tag,
        arg |-> doc_results[doc_id].arg,
        post_fetch_error |-> fetch_failed,
        source |-> "api_bulk_reprocess" ]

\* Faulty variant of RecordOne: an id that was never submitted gets no row.
RecordOne_SubmittedOnly(doc_id) ==
  IF doc_id \in Range(submit_log)
    THEN \E doc \in Docs :
           archive_rows' =
             Append(archive_rows, HistoryRow(doc_id, doc.content_length, FALSE))
    ELSE UNCHANGED archive_rows

\* One iteration of the reporting loop: final refetch and one row.
RecordOne(doc_id) ==
  \/ \E doc \in Docs :
       archive_rows' = Append(archive_rows, HistoryRow(doc_id, doc.content_length, FALSE))
  \/ \E exc \in Exceptions :
       archive_rows' =
         Append(archive_rows,
                HistoryRow(doc_id, baseline_snapshots[doc_id].content_length, TRUE))

Record ==
  /\ pc = "record"
  /\ IF idx > Len(doc_ids)
       THEN /\ pc' = "summarize"
            /\ UNCHANGED << archive_rows, idx >>
       ELSE /\ RecordOne(doc_ids[idx])
            /\ idx' = idx + 1
            /\ UNCHANGED pc
  /\ UNCHANGED << api_run_active, stop_event, doc_ids, baseline_snapshots,
                  submitted_tasks, no_task_baselines, doc_results, task_idx,
                  poll_state, pending, keys, key_idx, current_doc, elapsed,
                  observed_ids, no_observed_diff_ids, stopped_ids,
                  accepted_no_task_count, accepted_no_task_observed,
                  accepted_no_task_no_diff, success_count, fail_count, history,
                  summary, crashed, submit_log, stop_at, results_at_stop >>

CountSuccess(rows) == Cardinality({ k \in 1 .. Len(rows) : rows[k].status = "success" })

\* Count the outcomes and append the rows to the history log.
Summarize ==
  /\ pc = "summarize"
  /\ success_count' = CountSuccess(archive_rows)
  /\ fail_count' = Len(archive_rows) - CountSuccess(archive_rows)
  /\ history' = history \o archive_rows
  /\ pc' = "finally"
  /\ UNCHANGED << api_run_active, stop_event, doc_ids, baseline_snapshots, idx,
                  submitted_tasks, no_task_baselines, doc_results, task_idx,
                  poll_state, pending, keys, key_idx, current_doc, elapsed,
                  observed_ids, no_observed_diff_ids, stopped_ids,
                  accepted_no_task_count, accepted_no_task_observed,
                  accepted_no_task_no_diff, archive_rows, summary, crashed,
                  submit_log, stop_at, results_at_stop >>

\* The "Summary detail:" line, emitted when an id was accepted without a
\* task id.
SummaryDetail ==
  IF accepted_no_task_count # 0
    THEN Some([accepted_without_task_id |-> accepted_no_task_count,
               observed_diff |-> accepted_no_task_observed,
               no_observed_diff |-> accepted_no_task_no_diff])
    ELSE None

\* The finally clause: the run is no longer active and the summary is
\* emitted.
Finally ==
  /\ pc = "finally"
  /\ api_run_active' = FALSE
  /\ summary' = [success |-> success_count, failed |-> fail_count,
                 total |-> Len(doc_ids), emitted |-> TRUE,
                 detail |-> SummaryDetail]
  /\ pc' = "returned"
  /\ UNCHANGED << stop_event, doc_ids, baseline_snapshots, idx, workerLocals,
                  history, crashed, submit_log, stop_at, results_at_stop >>

\* ------------------------------------------------------------ export worker
\* _export_documents_to_rag_worker, head of its loop over the ids.
ExportCheck ==
  /\ export_pc = "export_check"
  /\ IF export_idx > Len(export_ids) \/ stop_event
       THEN export_pc' = "export_finally"
       ELSE export_pc' = "export_item"
  /\ UNCHANGED << export_active, export_ids, export_idx, ok_count,
                  export_fail_count >>

\* One id: its text is fetched and written out, or any of that raises.
ExportItem ==
  /\ export_pc = "export_item"
  /\ \/ ok_count' = ok_count + 1 /\ UNCHANGED export_fail_count
     \/ export_fail_count' = export_fail_count + 1 /\ UNCHANGED ok_count
  /\ export_idx' = export_idx + 1
  /\ export_pc' = "export_check"
  /\ UNCHANGED << export_active, export_ids >>

\* The finally clause of the export worker.
ExportFinally ==
  /\ export_pc = "export_finally"
  /\ export_active' = FALSE
  /\ export_pc' = "export_returned"
  /\ UNCHANGED << export_ids, export_idx, ok_count, export_fail_count >>

\* A step of the export worker: nothing of the reprocess run is touched.
InExport(step) ==
  /\ step
  /\ UNCHANGED << api_run_active, stop_event, pc, doc_ids, baseline_snapshots,
                  idx, workerLocals, history, summary, crashed, submit_log,
                  stop_at, results_at_stop, task_payload, rejected, syncVars, toolVars >>

\* ------------------------------------------------------------ sync engine
\* The paperless ids and the documents the API lists for them, as
\* normalize_document hands them on: the four texts are strings, page_count
\* and modified are optional, content_length is an integer.
SyncIds == {1, 2}

SyncDocs ==
  [id : SyncIds, title : {"scan"}, mime_type : {"application/pdf"},
   original_filename : {"scan.pdf"}, archive_filename : {"scan-archive.pdf"},
   page_count : {Some(3)}, modified : {Some("2026-01-01")},
   content_length : {10, 20}]

\* What fetch_all_documents can return: the listed documents sorted by id.
\* The API may list an id twice.
ObservedLists ==
  UNION { { list \in [1 .. n -> SyncDocs] :
              \A k \in 1 .. n - 1 : list[k].id <= list[k + 1].id } :
          n \in 0 .. Cardinality(SyncIds) }

\* The seven mirrored fields, in the order detect_changed_fields walks them.
FingerprintFields ==
  << "title", "mime_type", "original_filename", "archive_filename",
     "page_count", "modified", "content_length" >>

\* One document and the same document with every field at another value
\* normalize_document can give it; the documents of id 1 that agree with
\* the first in all fields, in all but one, or in none.
FieldDocBase ==
  [id |-> 1, title |-> "scan", mime_type |-> "application/pdf",
   original_filename |-> "scan.pdf", archive_filename |-> "scan-archive.pdf",
   page_count |-> Some(3), modified |-> Some("2026-01-01"),
   content_length |-> 10]

FieldDocOther ==
  [id |-> 1, title |-> "", mime_type |-> "image/png",
   original_filename |-> "other.pdf", archive_filename |-> "",
   page_count |-> None, modified |-> None, content_length |-> 0]

FieldDocs ==
  {FieldDocBase, FieldDocOther}
    \cup { [FieldDocBase EXCEPT ![field] = FieldDocOther[field]] :
             field \in Range(FingerprintFields) }

\* What fetch_all_documents returns when the API lists id 1 or nothing.
FieldLists == { << >> } \cup { << doc >> : doc \in FieldDocs }

\* value or "" of a text, int(value or 0) of an integer.
OrEmpty(value) == IF value = "" THEN "" ELSE value
OrZero(value) == IF value = 0 THEN 0 ELSE value

\* Faulty variant of stable_fingerprint: modified is left out of the digest.
stable_fingerprint_NoModified(doc) ==
  << OrEmpty(doc.title), OrEmpty(doc.mime_type),
     OrEmpty(doc.original_filename), OrEmpty(doc.archive_filename),
     doc.page_count, OrZero(doc.content_length) >>

\* Faulty variant of stable_fingerprint: the id is part of the digest.
stable_fingerprint_WithId(doc) ==
  << doc.id, OrEmpty(doc.title), OrEmpty(doc.mime_type),
     OrEmpty(doc.original_filename), OrEmpty(doc.archive_filename),
     doc.page_count, doc.modified, OrZero(doc.content_length) >>

\* stable_fingerprint: the digest of the seven values; two documents have
\* the same digest exactly when the seven values agree.
stable_fingerprint(doc) ==
  << OrEmpty(doc.title), OrEmpty(doc.mime_type),
     OrEmpty(doc.original_filename), OrEmpty(doc.archive_filename),
     doc.page_count, doc.modified, OrZero(doc.content_length) >>

detect_changed_fields(previous, current) ==
  SelectSeq(FingerprintFields, LAMBDA field : previous[field] # current[field])

Db ==
  [runs |-> runs, tracked_documents |-> tracked_documents,
   document_classifications |-> document_classifications]

IdsOf(list) == { list[k].id : k \in DOMAIN list }

Put(table, key, row) ==
  [ k \in DOMAIN table \cup {key} |-> IF k = key THEN row ELSE table[k] ]

\* INSERT INTO runs: the row of a started run.
RunRow(id, started_at) ==
  [id |-> id, started_at |-> started_at, completed_at |-> None,
   total_documents |-> 0, new_documents |-> 0, changed_documents |-> 0,
   unchanged_documents |-> 0, missing_documents |-> 0]

\* run_sync, INSERT INTO tracked_documents for an id not tracked yet.
TrackedInsert(doc, run, observed_at, fingerprint) ==
  [paperless_id |-> doc.id, first_seen_run_id |-> run,
   last_seen_run_id |-> run, first_seen_at |-> observed_at,
   last_seen_at |-> observed_at, is_active |-> 1, deleted_at |-> None,
   deleted_in_run_id |-> None, title |-> doc.title,
   mime_type |-> doc.mime_type, original_filename |-> doc.original_filename,
   archive_filename |-> doc.archive_filename, page_count |-> doc.page_count,
   modified |-> doc.modified, content_length |-> doc.content_length,
   current_fingerprint |-> fingerprint]

\* Faulty variant of TrackedUpdate: the stored fingerprint is not replaced.
TrackedUpdate_KeepFingerprint(row, doc, run, observed_at, fingerprint) ==
  [row EXCEPT !.last_seen_run_id = run, !.last_seen_at = observed_at,
              !.is_active = 1, !.deleted_at = None,
              !.deleted_in_run_id = None, !.title = doc.title,
              !.mime_type = doc.mime_type,
              !.original_filename = doc.original_filename,
              !.archive_filename = doc.archive_filename,
              !.page_count = doc.page_count, !.modified = doc.modified,
              !.content_length = doc.content_length]

\* Faulty variant of TrackedUpdate: a row that was soft-deleted starts over
\* with the current run as its first observation.
TrackedUpdate_ResetFirstSeen(row, doc, run, observed_at, fingerprint) ==
  [row EXCEPT !.first_seen_run_id =
                IF row.is_active = 0 THEN run ELSE row.first_seen_run_id,
              !.first_seen_at =
                IF row.is_active = 0 THEN observed_at ELSE row.first_seen_at,
              !.last_seen_run_id = run, !.last_seen_at = observed_at,
              !.is_active = 1, !.deleted_at = None,
              !.deleted_in_run_id = None, !.title = doc.title,
              !.mime_type = doc.mime_type,
              !.original_filename = doc.original_filename,
              !.archive_filename = doc.archive_filename,
              !.page_count = doc.page_count, !.modified = doc.modified,
              !.content_length = doc.content_length,
              !.current_fingerprint = fingerprint]

\* Faulty variant of TrackedUpdate: the deletion fields are not cleared.
TrackedUpdate_KeepDeleted(row, doc, run, observed_at, fingerprint) ==
  [row EXCEPT !.last_seen_run_id = run, !.last_seen_at = observed_at,
              !.is_active = 1, !.title = doc.title,
              !.mime_type = doc.mime_type,
              !.original_filename = doc.original_filename,
              !.archive_filename = doc.archive_filename,
              !.page_count = doc.page_count, !.modified = doc.modified,
              !.content_length = doc.content_length,
              !.current_fingerprint = fingerprint]

\* run_sync, UPDATE tracked_documents for a tracked id.
TrackedUpdate(row, doc, run, observed_at, fingerprint) ==
  [row EXCEPT !.last_seen_run_id = run, !.last_seen_at = observed_at,
              !.is_active = 1, !.deleted_at = None,
              !.deleted_in_run_id = None, !.title = doc.title,
              !.mime_type = doc.mime_type,
              !.original_filename = doc.original_filename,
              !.archive_filename = doc.archive_filename,
              !.page_count = doc.page_count, !.modified = doc.modified,
              !.content_length = doc.content_length,
              !.current_fingerprint = fingerprint]

\* run_sync, the row INSERTed INTO document_classifications for a document.
ClassificationRow(doc, run, at, kind, changed, previous, fingerprint) ==
  [run_id |-> run, paperless_id |-> doc.id, observed_at |-> at,
   classification |-> kind, changed_fields |-> changed,
   previous_fingerprint |-> previous,
   new_fingerprint |-> Some(fingerprint), title |-> doc.title,
   mime_type |-> doc.mime_type, original_filename |-> doc.original_filename,
   archive_filename |-> doc.archive_filename, page_count |-> doc.page_count,
   modified |-> doc.modified, content_length |-> doc.content_length]

\* mark_missing_documents, the 'missing' row of an id.
MissingRow(paperless_id, run, observed_at) ==
  [run_id |-> run, paperless_id |-> paperless_id,
   observed_at |-> observed_at, classification |-> "missing",
   changed_fields |-> << >>, previous_fingerprint |-> None,
   new_fingerprint |-> None, title |-> "", mime_type |-> "",
   original_filename |-> "", archive_filename |-> "", page_count |-> None,
   modified |-> None, content_length |-> 0]

\* UNIQUE(run_id, paperless_id) of document_classifications.
ClassificationExists(table, run, paperless_id) ==
  \E c \in table : c.run_id = run /\ c.paperless_id = paperless_id

\* The exception of a statement: main's except clause is next.
Raise(statement) ==
  /\ sync_pc' = "except"
  /\ raised_at' = statement

\* main up to its try block: the documents are fetched and a connection to
\* the database file is opened, seeing what was committed.
main(observed) ==
  /\ sync_pc \in {"idle", "committed", "failed"}
  /\ now_iso < MaxSyncRuns
  /\ docs' = observed
  /\ now_iso' = now_iso + 1
  /\ run_id' = 0
  /\ doc_i' = 1
  /\ new_count' = 0
  /\ changed_count' = 0
  /\ unchanged_count' = 0
  /\ missing_count' = 0
  /\ runs' = committed.runs
  /\ tracked_documents' = committed.tracked_documents
  /\ document_classifications' = committed.document_classifications
  /\ raised_at' = ""
  /\ before_run' = committed
  /\ sync_pc' = "insert_run"
  /\ UNCHANGED << committed, last_observed >>

\* main: INSERT INTO runs and last_insert_rowid().
InsertRun ==
  /\ sync_pc = "insert_run"
  /\ \/ /\ runs' = Append(runs, RunRow(Len(runs) + 1, now_iso))
        /\ run_id' = Len(runs) + 1
        /\ sync_pc' = "run_sync"
        /\ UNCHANGED raised_at
     \/ /\ Raise("insert_run")
        /\ UNCHANGED << runs, run_id >>
  /\ UNCHANGED << docs, now_iso, doc_i, new_count, changed_count,
                  unchanged_count, missing_count, tracked_documents,
                  document_classifications, committed, before_run,
                  last_observed >>

\* run_sync: one turn of the loop over docs, or its return.
run_sync ==
  /\ sync_pc = "run_sync"
  /\ IF doc_i > Len(docs)
       THEN /\ sync_pc' = "mark_missing"
            /\ UNCHANGED << doc_i, new_count, changed_count, unchanged_count,
                            tracked_documents, document_classifications,
                            raised_at >>
       ELSE LET doc == docs[doc_i]
                fingerprint == stable_fingerprint(doc)
                is_tracked == doc.id \in DOMAIN tracked_documents
                row == tracked_documents[doc.id]
                previous_fingerprint == row.current_fingerprint
                classification ==
                  IF ~is_tracked THEN "new"
                  ELSE IF previous_fingerprint # fingerprint THEN "changed"
                  ELSE "unchanged"
                tracked_row ==
                  IF is_tracked
                    THEN TrackedUpdate(row, doc, run_id, now_iso, fingerprint)
                    ELSE TrackedInsert(doc, run_id, now_iso, fingerprint)
                classification_row ==
                  IF is_tracked
                    THEN ClassificationRow(doc, run_id, now_iso, classification,
                                           detect_changed_fields(row, doc),
                                           Some(previous_fingerprint),
                                           fingerprint)
                    ELSE ClassificationRow(doc, run_id, now_iso, "new",
                                           FingerprintFields, None, fingerprint)
            IN  /\ new_count' =
                     IF classification = "new" THEN new_count + 1 ELSE new_count
                /\ changed_count' =
                     IF classification = "changed" THEN changed_count + 1
                     ELSE changed_count
                /\ unchanged_count' =
                     IF classification = "unchanged" THEN unchanged_count + 1
                     ELSE unchanged_count
                /\ \/ /\ ~ClassificationExists(document_classifications, run_id,
                                               doc.id)
                      /\ tracked_documents' =
                           Put(tracked_documents, doc.id, tracked_row)
                      /\ document_classifications' =
                           document_classifications \cup {classification_row}
                      /\ doc_i' = doc_i + 1
                      /\ UNCHANGED << sync_pc, raised_at >>
                   \/ /\ tracked_documents' =
                           Put(tracked_documents, doc.id, tracked_row)
                      /\ Raise("classification_insert")
                      /\ UNCHANGED << document_classifications, doc_i >>
                   \/ /\ Raise("tracked_write")
                      /\ UNCHANGED << tracked_documents,
                                      document_classifications, doc_i >>
  /\ UNCHANGED << docs, now_iso, run_id, missing_count, runs, committed,
                  before_run, last_observed >>

\* Faulty variant of MissingIds: the ids already soft-deleted count too.
MissingIds_AllTracked(tracked, observed) ==
  DOMAIN tracked \ observed

\* mark_missing_documents: active_ids - observed_ids.
MissingIds(tracked, observed) ==
  { id \in DOMAIN tracked : tracked[id].is_active = 1 } \ observed

\* Faulty variant of SoftDelete: is_active is left as it was.
SoftDelete_StillActive(row, run, at) ==
  [row EXCEPT !.deleted_at = Some(at), !.deleted_in_run_id = Some(run)]

\* mark_missing_documents, the UPDATE of one missing id.
SoftDelete(row, run, at) ==
  [row EXCEPT !.is_active = 0, !.deleted_at = Some(at),
              !.deleted_in_run_id = Some(run)]

\* Faulty variant of MarkedMissing: the rows of the missing ids are deleted.
MarkedMissing_Deleted(tracked, ids, run, at) ==
  [ id \in DOMAIN tracked \ ids |-> tracked[id] ]

\* Faulty variant of MarkedMissing: the rows already soft-deleted are
\* stamped again.
MarkedMissing_Restamp(tracked, ids, run, at) ==
  [ id \in DOMAIN tracked |->
      IF id \in ids \/ tracked[id].is_active = 0
        THEN SoftDelete(tracked[id], run, at)
        ELSE tracked[id] ]

\* mark_missing_documents, the table after the UPDATEs of the given ids.
MarkedMissing(tracked, ids, run, at) ==
  [ id \in DOMAIN tracked |->
      IF id \in ids THEN SoftDelete(tracked[id], run, at) ELSE tracked[id] ]

\* mark_missing_documents as main calls it.  When it raises, the UPDATE of
\* the first missing id is done and nothing after it.
mark_missing_documents ==
  /\ sync_pc = "mark_missing"
  /\ LET missing_ids == MissingIds(tracked_documents, IdsOf(docs))
         first_ids ==
           { id \in missing_ids : \A other \in missing_ids : id <= other }
     IN  \/ /\ tracked_documents' =
                 MarkedMissing(tracked_documents, missing_ids, run_id, now_iso)
            /\ document_classifications' =
                 document_classifications \cup
                   { MissingRow(id, run_id, now_iso) :
                       id \in { m \in missing_ids :
                                  ~ClassificationExists(document_classifications,
                                                        run_id, m) } }
            /\ missing_count' = Cardinality(missing_ids)
            /\ sync_pc' = "complete"
            /\ UNCHANGED raised_at
         \/ /\ tracked_documents' =
                 MarkedMissing(tracked_documents, first_ids, run_id, now_iso)
            /\ Raise("mark_missing")
            /\ UNCHANGED << document_classifications, missing_count >>
  /\ UNCHANGED << docs, now_iso, run_id, doc_i, new_count, changed_count,
                  unchanged_count, runs, committed, before_run,
                  last_observed >>

\* main: UPDATE runs SET completed_at and the five counts.
Complete ==
  /\ sync_pc = "complete"
  /\ \/ /\ runs' = [runs EXCEPT ![run_id] =
                      [@ EXCEPT !.completed_at = Some(now_iso),
                                !.total_documents = Len(docs),
                                !.new_documents = new_count,
                                !.changed_documents = changed_count,
                                !.unchanged_documents = unchanged_count,
                                !.missing_documents = missing_count]]
        /\ sync_pc' = "commit"
        /\ UNCHANGED raised_at
     \/ /\ Raise("complete")
        /\ UNCHANGED runs
  /\ UNCHANGED << docs, now_iso, run_id, doc_i, new_count, changed_count,
                  unchanged_count, missing_count, tracked_documents,
                  document_classifications, committed, before_run,
                  last_observed >>

\* main: conn.commit().
Commit ==
  /\ sync_pc = "commit"
  /\ \/ /\ committed' = Db
        /\ last_observed' = Some(docs)
        /\ sync_pc' = "committed"
        /\ UNCHANGED raised_at
     \/ /\ Raise("commit")
        /\ UNCHANGED << committed, last_observed >>
  /\ UNCHANGED << docs, now_iso, run_id, doc_i, new_count, changed_count,
                  unchanged_count, missing_count, runs, tracked_documents,
                  document_classifications, before_run >>

\* Faulty variant of Rollback: the except clause commits what was written.
Rollback_Commit ==
  /\ sync_pc = "except"
  /\ committed' = Db
  /\ sync_pc' = "failed"
  /\ UNCHANGED << docs, now_iso, run_id, doc_i, new_count, changed_count,
                  unchanged_count, missing_count, runs, tracked_documents,
                  document_classifications, raised_at, before_run,
                  last_observed >>

\* main's except clause: conn.rollback(), and the exception goes on.
Rollback ==
  /\ sync_pc = "except"
  /\ runs' = committed.runs
  /\ tracked_documents' = committed.tracked_documents
  /\ document_classifications' = committed.document_classifications
  /\ sync_pc' = "failed"
  /\ UNCHANGED << docs, now_iso, run_id, doc_i, new_count, changed_count,
                  unchanged_count, missing_count, committed, raised_at,
                  before_run, last_observed >>

\* ------------------------------------------------- fingerprint on its own
\* A document record as a dict holds it, the keys in insertion order, with
\* or without fields beyond the eight of normalize_document.
RecordPairs(doc, more) ==
  << << "id", doc.id >>, << "title", doc.title >>,
     << "mime_type", doc.mime_type >>,
     << "original_filename", doc.original_filename >>,
     << "archive_filename", doc.archive_filename >>,
     << "page_count", doc.page_count >>, << "modified", doc.modified >>,
     << "content_length", doc.content_length >> >> \o more

Reverse(seq) == [ k \in 1 .. Len(seq) |-> seq[Len(seq) + 1 - k] ]

\* The records handed to stable_fingerprint: any id, any of the documents,
\* the keys in one order or the other, a content field or none.
HashRecords ==
  UNION { { RecordPairs([doc EXCEPT !.id = id], more),
            Reverse(RecordPairs([doc EXCEPT !.id = id], more)) } :
          doc \in FieldDocs, id \in SyncIds,
          more \in { << >>, << << "content", "text" >> >> } }

\* doc.get(key) for a key the record has.
dict_get(record, key) ==
  record[CHOOSE k \in DOMAIN record : record[k][1] = key][2]

\* The record as its lookups see it.
AsMapping(record) ==
  [ key \in { record[k][1] : k \in DOMAIN record } |-> dict_get(record, key) ]

\* A call of stable_fingerprint on a record.
FingerprintCall(record) ==
  /\ Len(fingerprint_calls) < MaxFingerprintCalls
  /\ fingerprint_calls' =
       Append(fingerprint_calls,
              [record |-> record,
               fingerprint |-> stable_fingerprint(AsMapping(record))])

\* ---------------------------------------------------- candidate selection
\* dt.datetime.now() and the run timestamps on file, in days.
Today == 10
RunDays == {2, 3}

\* The rows _load_api_history_rows reads: run_ts as the day
\* _parse_run_ts_to_dt makes of it, or None when it does not parse.
LoadedRows ==
  [id : {1, 2}, run_ts : {None} \cup { Some(day) : day \in RunDays },
   status : {"success", "failed"}]

Histories == UNION { [1 .. n -> LoadedRows] : n \in 0 .. MaxHistoryRows }

\* _load_api_history_rows: the rows of status success, and the others.
SuccessRows(rows) == SelectSeq(rows, LAMBDA row : row.status = "success")
FailedRows(rows) == SelectSeq(rows, LAMBDA row : row.status # "success")

\* self.docs after a fetch: some of the ids 1, 2, 3 in ascending order,
\* each with one of three content lengths.
OverviewIds == << 1, 2, 3 >>
OverviewLengths == {10, 200, 500}

Overviews ==
  { [ k \in 1 .. Len(ids) |-> [id |-> ids[k], content_length |-> len[ids[k]]] ] :
      ids \in { SelectSeq(OverviewIds, LAMBDA id : id \in present) :
                  present \in SUBSET Range(OverviewIds) \ {{}} },
      len \in [Range(OverviewIds) -> OverviewLengths] }

\* Faulty variant of _recent_manual_ocr_ids: only successful rows count.
_recent_manual_ocr_ids_SuccessOnly(rows, within_days) ==
  { rows[k].id :
      k \in { k \in DOMAIN rows :
                /\ rows[k].status = "success"
                /\ rows[k].run_ts # None
                /\ ~(rows[k].run_ts[1] < Today - within_days) } }

\* _recent_manual_ocr_ids: the ids of the rows whose timestamp parses and
\* is not before the cutoff.
_recent_manual_ocr_ids(rows, within_days) ==
  { rows[k].id :
      k \in { k \in DOMAIN rows :
                /\ rows[k].run_ts # None
                /\ ~(rows[k].run_ts[1] < Today - within_days) } }

\* The sort key (content_length, id) and its order.
KeyBefore(a, b) ==
  \/ OrZero(a.content_length) < OrZero(b.content_length)
  \/ /\ OrZero(a.content_length) = OrZero(b.content_length)
     /\ OrZero(a.id) < OrZero(b.id)

\* list.sort(key=...): stable, ascending by key.
InsertByKey(sorted, d) ==
  LET after == { k \in 1 .. Len(sorted) : KeyBefore(d, sorted[k]) }
      at == IF after = {} THEN Len(sorted) + 1
            ELSE CHOOSE k \in after : \A other \in after : k <= other
  IN  SubSeq(sorted, 1, at - 1) \o << d >> \o SubSeq(sorted, at, Len(sorted))

RECURSIVE SortByKey(_)
SortByKey(list) ==
  IF list = << >> THEN << >>
  ELSE InsertByKey(SortByKey(SubSeq(list, 1, Len(list) - 1)), list[Len(list)])

Truncate(list, n) == SubSeq(list, 1, Min(n, Len(list)))

\* refresh_candidates with documents loaded and valid entries in the two
\* fields.
refresh_candidates(overview, rows, recent_days, batch_size) ==
  LET recent_ids ==
        _recent_manual_ocr_ids(SuccessRows(rows) \o FailedRows(rows),
                               recent_days)
      candidates == SelectSeq(overview, LAMBDA d : d.id \notin recent_ids)
      selected == Truncate(SortByKey(candidates), batch_size)
  IN  run_candidates' =
        Some([docs |-> overview, rows |-> rows, recent_days |-> recent_days,
              batch_size |-> batch_size, selected |-> selected])

\* -------------------------------------------------- prospective selection
\* A mime type in two spellings, and str.lower() on the mime types used.
MimeSpellings == { << "application/pdf", "Application/PDF" >> }

Lower(str) ==
  IF \E t \in MimeSpellings : t[2] = str
    THEN (CHOOSE t \in MimeSpellings : t[2] = str)[1]
    ELSE str

\* self.docs for the prospective tab: id 1 with any content length, archive
\* filename and mime type, id 2 a picture without archive file.
ProspectDocs ==
  [id : {1}, content_length : {0, 5, 50}, archive_filename : {"", " ", "a.pdf"},
   mime_type : {"application/pdf", "Application/PDF", "image/png"}]
    \cup [id : {2}, content_length : {0, 5, 50}, archive_filename : {""},
          mime_type : {"image/png"}]

ProspectOverviews ==
  { << d >> : d \in ProspectDocs }
    \cup { << a, b >> : a \in { d \in ProspectDocs : d.id = 1 },
                        b \in { d \in ProspectDocs : d.id = 2 } }

\* The histories of successful runs of id 1 or 2 with a parsed timestamp.
ProspectHistories ==
  { rows \in Histories :
      \A k \in DOMAIN rows : rows[k].status = "success" /\ rows[k].run_ts # None }

Thresholds == {0, 10}
LowTextTag == [ threshold \in Thresholds |->
                  IF threshold = 0 THEN "low_text<0" ELSE "low_text<10" ]

\* Faulty variant of ReasonsOf: every PDF gets pdf_zero_text.
ReasonsOf_AnyPdf(d, threshold) ==
  LET content_length == OrZero(d.content_length)
  IN  (IF content_length < threshold THEN << LowTextTag[threshold] >>
       ELSE << >>)
      \o (IF Strip(OrEmpty(d.archive_filename)) = ""
            THEN << "missing_archive" >> ELSE << >>)
      \o (IF Lower(OrEmpty(d.mime_type)) = "application/pdf"
            THEN << "pdf_zero_text" >> ELSE << >>)

\* refresh_prospective: the reasons of one document, in the order appended.
ReasonsOf(d, threshold) ==
  LET content_length == OrZero(d.content_length)
  IN  (IF content_length < threshold THEN << LowTextTag[threshold] >>
       ELSE << >>)
      \o (IF Strip(OrEmpty(d.archive_filename)) = ""
            THEN << "missing_archive" >> ELSE << >>)
      \o (IF Lower(OrEmpty(d.mime_type)) = "application/pdf"
               /\ content_length = 0
            THEN << "pdf_zero_text" >> ELSE << >>)

ProspectRow(d, threshold) ==
  [id |-> OrZero(d.id), content_length |-> OrZero(d.content_length),
   reason |-> ReasonsOf(d, threshold)]

\* refresh_prospective with documents loaded and valid entries in the two
\* fields.
refresh_prospective(overview, rows, threshold, recent_days) ==
  LET recent_ids ==
        _recent_manual_ocr_ids(SuccessRows(rows) \o FailedRows(rows),
                               recent_days)
      kept ==
        SelectSeq(overview,
                  LAMBDA d : /\ OrZero(d.id) \notin recent_ids
                             /\ ReasonsOf(d, threshold) # << >>)
      prospective ==
        SortByKey([ k \in 1 .. Len(kept) |-> ProspectRow(kept[k], threshold) ])
  IN  prospective_rows' =
        Some([docs |-> overview, rows |-> rows, threshold |-> threshold,
              recent_days |-> recent_days, prospective |-> prospective])

\* --------------------------------------------------------- document fetch
\* The items of a results list: an object with an id, an object without
\* one, and something that is not an object.
RawItems ==
  [shape : {"dict"}, id : {None, Some(1), Some(2)}]
    \cup [shape : {"text"}, id : {None}]

PageSizes == 0 .. 2
RawPages == UNION { [1 .. n -> RawItems] : n \in PageSizes }
PageLists == UNION { [1 .. n -> RawPages] : n \in 1 .. MaxPages }

\* normalize_document as far as the id goes: the document, or None when it
\* raises ValueError for a payload without id.
normalize_document(raw) ==
  IF raw.id = None THEN None ELSE Some([id |-> raw.id[1]])

\* The items of a page that are objects, in page order.
DictItems(page) == SelectSeq(page, LAMBDA item : item.shape = "dict")

\* docs.sort(key=lambda d: d["id"]): stable, ascending by id.
InsertById(sorted, d) ==
  LET after == { k \in 1 .. Len(sorted) : d.id < sorted[k].id }
      at == IF after = {} THEN Len(sorted) + 1
            ELSE CHOOSE k \in after : \A other \in after : k <= other
  IN  SubSeq(sorted, 1, at - 1) \o << d >> \o SubSeq(sorted, at, Len(sorted))

RECURSIVE SortById(_)
SortById(list) ==
  IF list = << >> THEN << >>
  ELSE InsertById(SortById(SubSeq(list, 1, Len(list) - 1)), list[Len(list)])

\* fetch_all_documents is called; the API will serve the given pages.
fetch_all_documents(pages) ==
  /\ fetch_outcome = ""
  /\ api_pages' = pages
  /\ page_no' = 0
  /\ fetched' = << >>
  /\ fetch_outcome' = "fetching"

\* One turn of the while loop: the next page is fetched and its items are
\* normalized one after the other; the exception of normalize_document
\* leaves the function.
FetchPage ==
  /\ fetch_outcome = "fetching"
  /\ page_no < Len(api_pages)
  /\ LET items == DictItems(api_pages[page_no + 1])
     IN  IF \E k \in DOMAIN items : normalize_document(items[k]) = None
           THEN /\ fetch_outcome' = "raised"
                /\ fetched' = << >>
                /\ UNCHANGED page_no
           ELSE /\ fetched' =
                     fetched \o [ k \in DOMAIN items |->
                                    normalize_document(items[k])[1] ]
                /\ page_no' = page_no + 1
                /\ UNCHANGED fetch_outcome
  /\ UNCHANGED api_pages

\* No next page: the list is sorted and returned.
FetchReturn ==
  /\ fetch_outcome = "fetching"
  /\ page_no = Len(api_pages)
  /\ fetched' = SortById(fetched)
  /\ fetch_outcome' = "returned"
  /\ UNCHANGED << api_pages, page_no >>

\* ------------------------------------------------------------ LLM request
\* What one POST to the LLM API comes to: a JSON body, an empty body, a
\* body that is not JSON, an HTTP error of class 4xx or 5xx, a timeout, or
\* another network error.
LlmResponses ==
  {"json", "empty", "non_json", "http_4xx", "http_5xx", "timeout", "url_error"}

\* Faulty variant of Retried: an HTTP error of class 4xx is retried too.
Retried_ClientErrors(response, n, attempts) ==
  /\ response \in {"http_4xx", "http_5xx", "timeout", "url_error"}
  /\ n < attempts

\* _llm_post_json: the except clauses that sleep and continue.
Retried(response, n, attempts) ==
  /\ response \in {"http_5xx", "timeout", "url_error"}
  /\ n < attempts

\* _run_llm_ocr_worker reaches _llm_post_json for a document, through
\* _llm_ocr_pdf, with the number of retries entered.
_llm_post_json(retries) ==
  /\ llm_pc = "idle"
  /\ retry_attempts' = retries
  /\ attempt' = 1
  /\ llm_responses' = << >>
  /\ llm_status' = "failed"
  /\ llm_pc' = "post"

\* One turn of the loop over the attempts: the POST and what follows it.
LlmPost(response) ==
  /\ llm_pc = "post"
  /\ llm_responses' = Append(llm_responses, response)
  /\ LET attempts == IF retry_attempts + 1 > 1 THEN retry_attempts + 1 ELSE 1
     IN  IF response \in {"json", "empty"}
           THEN llm_pc' = "returned" /\ UNCHANGED attempt
         ELSE IF Retried(response, attempt, attempts)
           THEN llm_pc' = "post" /\ attempt' = attempt + 1
         ELSE llm_pc' = "raised" /\ UNCHANGED attempt
  /\ UNCHANGED << retry_attempts, llm_status >>

\* Back in _run_llm_ocr_worker: the except clause of the document after an
\* exception, otherwise the rest of the try block, which may raise too.
LlmRecord ==
  /\ llm_pc \in {"returned", "raised"}
  /\ llm_status' \in IF llm_pc = "raised" THEN {"failed"}
                    ELSE {"success", "failed"}
  /\ llm_pc' = "recorded"
  /\ UNCHANGED << retry_attempts, attempt, llm_responses >>

\* ----------------------------------------------------------- specification
\* A step of the reprocess run with no export and no second request around;
\* the answer of the task endpoint is not kept.
InRun(step) == step /\ UNCHANGED << task_payload, exportVars, rejected, syncVars, toolVars >>

Next ==
  \/ \E batch \in Batches : \E base \in [Range(batch) -> BaselineDocs] :
       InRun(run_selected_ocr(batch, base))
  \/ InRun(stop_run)
  \/ InRun(SubmitCheck)
  \/ InRun(SubmitCall)
  \/ InRun(PollLoop)
  \/ InRun(PollInnerCheck)
  \/ InRun(PollGet)
  \/ InRun(PollReturn)
  \/ InRun(DiffStart)
  \/ InRun(DiffWhile)
  \/ InRun(DiffFor)
  \/ InRun(DiffFetch)
  \/ InRun(DiffSleep)
  \/ InRun(DiffExit)
  \/ InRun(Finalize)
  \/ InRun(Record)
  \/ InRun(Summarize)
  \/ InRun(Finally)

Spec == Init /\ [][Next]_vars

\* The steps of the worker thread.  The thread is scheduled as long as it
\* has a step to take, and every network call it makes returns or raises
\* within its timeout.
Worker ==
  \/ SubmitCheck
  \/ SubmitCall
  \/ PollLoop
  \/ PollInnerCheck
  \/ PollGet
  \/ PollReturn
  \/ DiffStart
  \/ DiffWhile
  \/ DiffFor
  \/ DiffFetch
  \/ DiffSleep
  \/ DiffExit
  \/ Finalize
  \/ Record
  \/ Summarize
  \/ Finally

\* The run with a worker thread that is never starved.  Nothing is assumed
\* of the user (stop_run may never be called) nor of the answers of the
\* document service.
FairSpec == Spec /\ WF_vars(InRun(Worker))

\* The run of a batch of one id, the task endpoint answering anything it
\* can answer.  The answer is in view in the state that follows the query
\* and dropped at the worker's next step.
Forget(step) ==
  step /\ task_payload' = None /\ UNCHANGED << exportVars, rejected, syncVars, toolVars >>

OneIdBatches == { batch \in Batches : batch = << 101 >> }

PollNext ==
  \/ \E batch \in OneIdBatches : \E base \in [Range(batch) -> BaselineDocs] :
       Forget(run_selected_ocr(batch, base))
  \/ Forget(stop_run)
  \/ Forget(SubmitCheck)
  \/ Forget(SubmitCall)
  \/ Forget(PollLoop)
  \/ Forget(PollInnerCheck)
  \/ PollGetAny
  \/ Forget(PollReturn)
  \/ Forget(DiffStart)
  \/ Forget(DiffWhile)
  \/ Forget(DiffFor)
  \/ Forget(DiffFetch)
  \/ Forget(DiffSleep)
  \/ Forget(DiffExit)
  \/ Forget(Finalize)
  \/ Forget(Record)
  \/ Forget(Summarize)
  \/ Forget(Finally)

PollSpec == Init /\ [][PollNext]_vars

\* The dashboard with its two kinds of run, a reprocess run of one id and
\* an export, and the user asking for runs and for a stop at any moment.
\* A step of the reprocess run touches nothing of the export.
InDashboard(step) == step /\ UNCHANGED << task_payload, exportVars, rejected, syncVars, toolVars >>

UiNext ==
  \/ \E batch \in OneIdBatches : \E base \in [Range(batch) -> BaselineDocs] :
       InDashboard(run_selected_ocr(batch, base))
  \/ run_selected_ocr_rejected
  \/ \E ids \in Batches : _export_documents_to_rag(ids)
  \/ _export_documents_to_rag_rejected
  \/ InDashboard(stop_run)
  \/ stop_run_ignored
  \/ InExport(ExportCheck)
  \/ InExport(ExportItem)
  \/ InExport(ExportFinally)
  \/ InDashboard(SubmitCheck)
  \/ InDashboard(SubmitCall)
  \/ InDashboard(PollLoop)
  \/ InDashboard(PollInnerCheck)
  \/ InDashboard(PollGet)
  \/ InDashboard(PollReturn)
  \/ InDashboard(DiffStart)
  \/ InDashboard(DiffWhile)
  \/ InDashboard(DiffFor)
  \/ InDashboard(DiffFetch)
  \/ InDashboard(DiffSleep)
  \/ InDashboard(DiffExit)
  \/ InDashboard(Finalize)
  \/ InDashboard(Record)
  \/ InDashboard(Summarize)
  \/ InDashboard(Finally)

UiSpec == Init /\ [][UiNext]_vars

\* The sync engine run again and again on one database file, the API
\* listing any documents and any statement of a run failing.  Nothing of
\* the dashboard moves.
InSync(step) == step /\ UNCHANGED << dashboardVars, toolVars >>

SyncNext ==
  \/ \E observed \in ObservedLists : InSync(main(observed))
  \/ InSync(InsertRun)
  \/ InSync(run_sync)
  \/ InSync(mark_missing_documents)
  \/ InSync(Complete)
  \/ InSync(Commit)
  \/ InSync(Rollback)

SyncSpec == Init /\ [][SyncNext]_vars

\* The sync engine run again and again over one id whose fields change
\* from run to run.
FieldNext ==
  \/ \E observed \in FieldLists : InSync(main(observed))
  \/ InSync(InsertRun)
  \/ InSync(run_sync)
  \/ InSync(mark_missing_documents)
  \/ InSync(Complete)
  \/ InSync(Commit)
  \/ InSync(Rollback)

FieldSpec == Init /\ [][FieldNext]_vars

\* stable_fingerprint called on one record after another.
InHash(step) ==
  /\ step
  /\ UNCHANGED << dashboardVars, syncVars, run_candidates, prospective_rows,
                  fetchVars, llmVars, lockVars, uiVars >>

HashNext == \E record \in HashRecords : InHash(FingerprintCall(record))

HashSpec == Init /\ [][HashNext]_vars

\* The candidates rebuilt once, for any overview, any history, an exclusion
\* of no days or of a week and a batch size of one to three.
InSelect(step) ==
  /\ step
  /\ UNCHANGED << dashboardVars, syncVars, fingerprint_calls,
                  prospective_rows, fetchVars, llmVars, lockVars, uiVars >>

SelectNext ==
  /\ run_candidates = None
  /\ \E overview \in Overviews : \E rows \in Histories :
       \E recent_days \in {0, 7} : \E batch_size \in 1 .. 3 :
         InSelect(refresh_candidates(overview, rows, recent_days, batch_size))

SelectSpec == Init /\ [][SelectNext]_vars

\* The prospective rows rebuilt once, for any overview, any history, either
\* threshold and an exclusion of a week.
InProspect(step) ==
  /\ step
  /\ UNCHANGED << dashboardVars, syncVars, fingerprint_calls, run_candidates,
                  fetchVars, llmVars, lockVars, uiVars >>

ProspectNext ==
  /\ prospective_rows = None
  /\ \E overview \in ProspectOverviews : \E rows \in ProspectHistories :
       \E threshold \in Thresholds :
         InProspect(refresh_prospective(overview, rows, threshold, 7))

ProspectSpec == Init /\ [][ProspectNext]_vars

\* One fetch of the document list, the API serving any pages.
InFetch(step) ==
  /\ step
  /\ UNCHANGED << dashboardVars, syncVars, fingerprint_calls, run_candidates,
                  prospective_rows, llmVars, lockVars, uiVars >>

FetchNext ==
  \/ \E pages \in PageLists : InFetch(fetch_all_documents(pages))
  \/ InFetch(FetchPage)
  \/ InFetch(FetchReturn)

FetchSpec == Init /\ [][FetchNext]_vars

\* The LLM request of one document, the API answering anything.
InLlm(step) ==
  /\ step
  /\ UNCHANGED << dashboardVars, syncVars, fingerprint_calls, run_candidates,
                  prospective_rows, fetchVars, lockVars, uiVars >>

LlmNext ==
  \/ \E retries \in 0 .. MaxRetryAttempts : InLlm(_llm_post_json(retries))
  \/ \E response \in LlmResponses : InLlm(LlmPost(response))
  \/ InLlm(LlmRecord)

LlmSpec == Init /\ [][LlmNext]_vars

\* ----------------------------------------------------------- history file
\* Faulty variant of Acquire: the file is opened without the lock.
Acquire_NoLock(t) ==
  /\ thread_pc[t] = "start"
  /\ t = Reader => history_file # << >>
  /\ history_file_lock' = t
  /\ thread_pc' = [thread_pc EXCEPT ![t] = "locked"]
  /\ UNCHANGED << history_file, written, lines_read, loaded >>

\* with self.history_file_lock, entered by an appending or reading thread;
\* the reader got here because the file exists.
Acquire(t) ==
  /\ thread_pc[t] = "start"
  /\ history_file_lock = ""
  /\ t = Reader => history_file # << >>
  /\ history_file_lock' = t
  /\ thread_pc' = [thread_pc EXCEPT ![t] = "locked"]
  /\ UNCHANGED << history_file, written, lines_read, loaded >>

\* _append_history_rows: one turn of the loop over the rows.
WriteRow(t) ==
  /\ t \in Appenders
  /\ thread_pc[t] = "locked"
  /\ written[t] < MaxBatchRows
  /\ history_file' = Append(history_file, [batch |-> t, row |-> written[t] + 1])
  /\ written' = [written EXCEPT ![t] = @ + 1]
  /\ UNCHANGED << history_file_lock, thread_pc, lines_read, loaded >>

\* _append_history_rows: the rows are written, the with blocks end.
AppendDone(t) ==
  /\ t \in Appenders
  /\ thread_pc[t] = "locked"
  /\ written[t] = MaxBatchRows
  /\ history_file_lock' = IF history_file_lock = t THEN "" ELSE history_file_lock
  /\ thread_pc' = [thread_pc EXCEPT ![t] = "done"]
  /\ UNCHANGED << history_file, written, lines_read, loaded >>

\* _load_api_history_rows: the file does not exist, two empty lists.
LoadNoFile ==
  /\ thread_pc[Reader] = "start"
  /\ history_file = << >>
  /\ \A t \in Appenders : thread_pc[t] # "locked"
  /\ Len(loaded) < MaxReads
  /\ loaded' = Append(loaded, << >>)
  /\ thread_pc' = [thread_pc EXCEPT ![Reader] =
                     IF Len(loaded) + 1 < MaxReads THEN "start" ELSE "done"]
  /\ UNCHANGED << history_file_lock, history_file, written, lines_read >>

\* _load_api_history_rows: one turn of the loop over the lines.
ReadLine ==
  /\ thread_pc[Reader] = "locked"
  /\ Len(lines_read) < Len(history_file)
  /\ lines_read' = Append(lines_read, history_file[Len(lines_read) + 1])
  /\ UNCHANGED << history_file_lock, history_file, thread_pc, written, loaded >>

\* _load_api_history_rows: end of file, the with blocks end, the rows are
\* returned.
LoadDone ==
  /\ thread_pc[Reader] = "locked"
  /\ Len(lines_read) = Len(history_file)
  /\ loaded' = Append(loaded, lines_read)
  /\ lines_read' = << >>
  /\ history_file_lock' =
       IF history_file_lock = Reader THEN "" ELSE history_file_lock
  /\ thread_pc' = [thread_pc EXCEPT ![Reader] =
                     IF Len(loaded) + 1 < MaxReads THEN "start" ELSE "done"]
  /\ UNCHANGED << history_file, written >>

\* Two batches appended and the file read, by threads running at once.
InHistory(step) ==
  /\ step
  /\ UNCHANGED << dashboardVars, syncVars, fingerprint_calls, run_candidates,
                  prospective_rows, fetchVars, llmVars, uiVars >>

LockNext ==
  \/ \E t \in Threads : InHistory(Acquire(t))
  \/ \E t \in Appenders : InHistory(WriteRow(t))
  \/ \E t \in Appenders : InHistory(AppendDone(t))
  \/ InHistory(LoadNoFile)
  \/ InHistory(ReadLine)
  \/ InHistory(LoadDone)

LockSpec == Init /\ [][LockNext]_vars

\* ------------------------------------------------- end of a worker thread
ENGINE_PAPERLESS == "paperless_internal"
ENGINE_LLM == "llm_openai_compatible"

\* The archive row of the run of worker w.
ArchiveRow(w) == [run |-> w]

At(w, position) == [workers EXCEPT ![w].at = position]

\* run_selected_ocr, seen from the flag: a run is accepted and its worker
\* thread started, with the engine the user chose.
StartWorker(engine_mode) ==
  /\ ~export_active
  /\ ~api_run_active
  /\ Len(workers) < MaxWorkers
  /\ api_run_active' = TRUE
  /\ workers' = Append(workers, [engine |-> engine_mode, at |-> "running",
                                 crashed |-> FALSE])
  /\ UNCHANGED history

\* _run_api_reprocess_worker, end of its try block: the rows of the run are
\* appended to the history.
ApiAppend(w) ==
  /\ workers[w].engine = ENGINE_PAPERLESS
  /\ workers[w].at = "running"
  /\ history' = Append(history, ArchiveRow(w))
  /\ workers' = At(w, "appended")
  /\ UNCHANGED api_run_active

\* _run_api_reprocess_worker: an exception ends the try block before the
\* append.
ApiCrash(w) ==
  /\ workers[w].engine = ENGINE_PAPERLESS
  /\ workers[w].at = "running"
  /\ workers' = [workers EXCEPT ![w].at = "crashed", ![w].crashed = TRUE]
  /\ UNCHANGED << api_run_active, history >>

\* _run_api_reprocess_worker, its finally clause.
ApiFinally(w) ==
  /\ workers[w].engine = ENGINE_PAPERLESS
  /\ workers[w].at \in {"appended", "crashed"}
  /\ api_run_active' = FALSE
  /\ workers' = At(w, "returned")
  /\ UNCHANGED history

\* _run_llm_ocr_worker, head of its finally clause: the flag is cleared.
LlmFinally(w) ==
  /\ workers[w].engine = ENGINE_LLM
  /\ workers[w].at = "running"
  /\ api_run_active' = FALSE
  /\ workers' = At(w, "cleared")
  /\ UNCHANGED history

\* _run_llm_ocr_worker, further down its finally clause: the rows of the
\* run are appended to the history.
LlmAppend(w) ==
  /\ workers[w].engine = ENGINE_LLM
  /\ workers[w].at = "cleared"
  /\ history' = Append(history, ArchiveRow(w))
  /\ workers' = At(w, "returned")
  /\ UNCHANGED api_run_active

\* Runs accepted one after the other, each with its worker thread.
InHandover(step) ==
  /\ step
  /\ UNCHANGED << stop_event, pc, doc_ids, baseline_snapshots, idx,
                  workerLocals, summary, crashed, submit_log, stop_at,
                  results_at_stop, task_payload, exportVars, rejected,
                  syncVars, fingerprint_calls, run_candidates,
                  prospective_rows, fetchVars, llmVars, lockVars,
                  stop_ignored, progressVars >>

HandoverNext ==
  \/ \E engine_mode \in {ENGINE_PAPERLESS, ENGINE_LLM} :
       InHandover(StartWorker(engine_mode))
  \/ \E w \in DOMAIN workers : InHandover(ApiAppend(w))
  \/ \E w \in DOMAIN workers : InHandover(ApiCrash(w))
  \/ \E w \in DOMAIN workers : InHandover(ApiFinally(w))
  \/ \E w \in DOMAIN workers : InHandover(LlmFinally(w))
  \/ \E w \in DOMAIN workers : InHandover(LlmAppend(w))

HandoverSpec == Init /\ [][HandoverNext]_vars

\* ------------------------------------------------- selection after a run
\* The day the run was accepted, as run_ts has it: the day of the
\* selection, the day before, or eight days before.
RunTsDays == {Today - 8, Today - 1, Today}

\* The batch of two ids the selection is made after.
TwoIdBatches == { batch \in Batches : batch = << 101, 102 >> }

\* self.docs at the selection: the two ids of the batch and a third
\* document.
OverviewAfterRun ==
  << [id |-> 100, content_length |-> 900],
     [id |-> 101, content_length |-> 50],
     [id |-> 102, content_length |-> 50] >>

\* The rows of the run as _load_api_history_rows reads them back: run_ts is
\* written by strftime and parsed by strptime with the same format, which
\* gives the day of the run; the id is written as a number and read back
\* through str and int.
LoadedAfterRun(rows, run_day) ==
  [ k \in DOMAIN rows |->
      [id |-> rows[k].id, run_ts |-> Some(run_day), status |-> rows[k].status] ]

\* refresh_candidates once the worker has returned and reloaded the history.
RefreshAfterRun(run_day, recent_days) ==
  /\ refresh_candidates(OverviewAfterRun, LoadedAfterRun(history, run_day),
                        recent_days, 3)
  /\ UNCHANGED << dashboardVars, syncVars, fingerprint_calls,
                  prospective_rows, fetchVars, llmVars, lockVars, uiVars >>

RerunNext ==
  \/ \E batch \in TwoIdBatches : \E base \in [Range(batch) -> BaselineDocs] :
       InRun(run_selected_ocr(batch, base))
  \/ InRun(stop_run)
  \/ InRun(SubmitCheck)
  \/ InRun(SubmitCall)
  \/ InRun(PollLoop)
  \/ InRun(PollInnerCheck)
  \/ InRun(PollGet)
  \/ InRun(PollReturn)
  \/ InRun(DiffStart)
  \/ InRun(DiffWhile)
  \/ InRun(DiffFor)
  \/ InRun(DiffFetch)
  \/ InRun(DiffSleep)
  \/ InRun(DiffExit)
  \/ InRun(Finalize)
  \/ InRun(Record)
  \/ InRun(Summarize)
  \/ InRun(Finally)
  \/ /\ pc = "returned"
     /\ run_candidates = None
     /\ \E run_day \in RunTsDays : \E recent_days \in {1, 7} :
          RefreshAfterRun(run_day, recent_days)

RerunSpec == Init /\ [][RerunNext]_vars

\* ------------------------------------------------------- progress display
\* _update_progress_from_log_line on the completed ids: an [OK] or [FAIL]
\* line with an id adds the id.
_update_progress_from_log_line(completed, line) ==
  IF line.prefix \in {"[OK]", "[FAIL]"} THEN completed \cup {line.id}
  ELSE completed

\* The completed ids after the lines of the queue, taken in order.
RECURSIVE Drained(_, _)
Drained(completed, lines) ==
  IF lines = << >> THEN completed
  ELSE Drained(_update_progress_from_log_line(completed, Head(lines)), Tail(lines))

\* run_selected_ocr, seen from the progress display: the counters are reset
\* for the ids of the run and the worker is started.
StartRun(ids) ==
  /\ ~export_active
  /\ ~api_run_active
  /\ Len(workers) < MaxWorkers
  /\ run_total' = Len(ids)
  /\ run_completed_ids' = {}
  /\ api_run_active' = TRUE
  /\ doc_ids' = ids
  /\ idx' = 1
  /\ workers' = Append(workers, [engine |-> ENGINE_PAPERLESS, at |-> "running",
                                 crashed |-> FALSE])
  /\ UNCHANGED log_queue

\* The worker emits the lines of its next id: [START], then [OK] or [FAIL].
EmitLine(prefix) ==
  /\ api_run_active
  /\ idx <= Len(doc_ids)
  /\ log_queue' = log_queue \o << [prefix |-> "[START]", id |-> doc_ids[idx]],
                                  [prefix |-> prefix, id |-> doc_ids[idx]] >>
  /\ idx' = idx + 1
  /\ UNCHANGED << api_run_active, doc_ids, workers, run_total,
                  run_completed_ids >>

\* The worker's finally clause: the flag is cleared, the summary emitted.
EmitSummary ==
  /\ api_run_active
  /\ idx > Len(doc_ids)
  /\ api_run_active' = FALSE
  /\ log_queue' = Append(log_queue, [prefix |-> "Summary:", id |-> 0])
  /\ UNCHANGED << doc_ids, idx, workers, run_total, run_completed_ids >>

\* _drain_log_queue on the UI thread: every line in the queue is taken out
\* and looked at.
_drain_log_queue ==
  /\ log_queue # << >>
  /\ run_completed_ids' = Drained(run_completed_ids, log_queue)
  /\ log_queue' = << >>
  /\ UNCHANGED << api_run_active, doc_ids, idx, workers, run_total >>

\* Runs one after the other, the worker emitting and the UI thread draining.
InProgress(step) ==
  /\ step
  /\ UNCHANGED << stop_event, pc, baseline_snapshots, workerLocals, history,
                  summary, crashed, submit_log, stop_at, results_at_stop,
                  task_payload, exportVars, rejected, syncVars,
                  fingerprint_calls, run_candidates, prospective_rows,
                  fetchVars, llmVars, lockVars, stop_ignored >>

ProgressNext ==
  \/ \E ids \in Batches : InProgress(StartRun(ids))
  \/ \E prefix \in {"[OK]", "[FAIL]"} : InProgress(EmitLine(prefix))
  \/ InProgress(EmitSummary)
  \/ InProgress(_drain_log_queue)

ProgressSpec == Init /\ [][ProgressNext]_vars

TypeOK ==
  /\ api_run_active \in BOOLEAN
  /\ stop_event \in BOOLEAN
  /\ pc \in {"idle", "submit_check", "submit_call", "poll_loop",
             "poll_inner_check", "poll_get", "poll_return", "diff_start",
             "diff_while", "diff_for", "diff_fetch", "diff_sleep", "diff_exit",
             "finalize", "record", "summarize", "finally", "returned"}
  /\ elapsed \in 0 .. NO_TASK_DIFF_MAX_WAIT_SECONDS

\* ============================================================== properties
SubmitPcs == {"submit_check", "submit_call"}
PollPcs == {"poll_loop", "poll_inner_check", "poll_get", "poll_return"}
DiffPcs == {"diff_while", "diff_for", "diff_fetch", "diff_sleep", "diff_exit"}
AfterDiffPcs == {"finalize", "record", "summarize", "finally", "returned"}
StoppedTags == {"stopped_before_completion", "stopped_before_diff_observation"}

Terminal(r) == r.status \in {"success", "failed"}

\* The row of id d among the rows of the run, if any.
RowsOf(d) == { k \in 1 .. Len(archive_rows) : archive_rows[k].id = d }

\* Every id of the batch has exactly one row, in batch order.
OneRowPerId ==
  /\ Len(archive_rows) = Len(doc_ids)
  /\ \A k \in 1 .. Len(doc_ids) : archive_rows[k].id = doc_ids[k]

\* C1: when the worker returns, it has produced exactly one outcome per id
\* of the batch, each success or failed, and no id is left pending.
C1_ReconciliationTotality ==
  pc = "returned" =>
    /\ OneRowPerId
    /\ \A k \in 1 .. Len(archive_rows) : archive_rows[k].status \in {"success", "failed"}
    /\ \A d \in Range(doc_ids) : doc_results[d].status # "pending"

\* C2: once an id's status is success or failed, no later step of the run
\* changes it.
C2_TerminalStatesFinal ==
  [][ \A d \in DOMAIN doc_results :
        Terminal(doc_results[d]) =>
          /\ d \in DOMAIN doc_results'
          /\ doc_results'[d].status = doc_results[d].status ]_vars

\* A run that ended after a stop request, in which one id was resolved by
\* task polling and another by diff observation.
C2_Witness ==
  /\ pc = "returned"
  /\ stop_event
  /\ \E d \in Range(doc_ids) : doc_results[d] = Result("success", "task_state", "SUCCESS")
  /\ \E d \in Range(doc_ids) : doc_results[d].tag = "observed_change_via_diff"

C4_StopDuringPolling ==
  (pc = "returned" /\ stop_at.pc \in PollPcs \cup DiffPcs) =>
    /\ OneRowPerId
    /\ \A d \in Range(doc_ids) :
         IF Terminal(results_at_stop[d])
           THEN doc_results[d] = results_at_stop[d]
           ELSE \/ /\ doc_results[d].status = "failed"
                   /\ doc_results[d].tag \in StoppedTags
                \/ /\ d \in observed_ids
                   /\ doc_results[d] = Result("success", "observed_change_via_diff", "")

\* C5: an id accepted without task id that is still pending when the wait
\* ceiling is reached, with no stop seen, is resolved to success with the
\* detail accepted_no_observed_diff; that happens at the ceiling only, and
\* its row says success.
C5_NoDiffAtCeilingIsSuccess ==
  /\ (pc = "diff_exit" /\ ~stop_event /\ pending # << >>) =>
        elapsed >= NO_TASK_DIFF_MAX_WAIT_SECONDS
  /\ no_observed_diff_ids # {} => elapsed >= NO_TASK_DIFF_MAX_WAIT_SECONDS
  /\ (pc \in AfterDiffPcs /\ crashed = "" /\ stopped_ids = {}) =>
        \A d \in Range(Keys(no_task_baselines)) :
          /\ d \in observed_ids \cup no_observed_diff_ids
          /\ doc_results[d].status = "success"
  /\ \A d \in no_observed_diff_ids :
       /\ doc_results[d] = Result("success", "accepted_no_observed_diff", "")
       /\ \A k \in RowsOf(d) :
            /\ archive_rows[k].status = "success"
            /\ archive_rows[k].tag = "accepted_no_observed_diff"

C5_Witness ==
  /\ pc = "returned"
  /\ ~stop_event
  /\ no_observed_diff_ids # {}
  /\ \A d \in no_observed_diff_ids : RowsOf(d) # {}

\* C6: a refetch that differs from the baseline in any of the four fields
\* resolves the id at once (observed, no longer pending), one that differs
\* in none leaves it pending; and in a batch of two with one id resolved by
\* a successful task poll and the other by an observed diff, the second has
\* the detail observed_change_via_diff and the summary is success=2 failed=0.
C6_DiffObservedIsSuccess ==
  /\ [][ (pc = "diff_fetch" /\ pc' = "diff_for" /\ current_doc' # None) =>
           LET doc_id == keys[key_idx]
               differs == \E k \in 1 .. Len(SnapshotKeys) :
                            current_doc'[1][SnapshotKeys[k]]
                              # baseline_snapshots[doc_id][SnapshotKeys[k]]
           IN  IF differs
                 THEN /\ doc_id \in observed_ids'
                      /\ doc_id \notin Range(Keys(pending'))
                 ELSE /\ doc_id \notin observed_ids'
                      /\ doc_id \in Range(Keys(pending')) ]_vars
  /\ [](\A a, b \in Range(doc_ids) :
          ( /\ pc = "returned"
            /\ Len(doc_ids) = 2
            /\ doc_results[a].tag = "task_state"
            /\ doc_results[a].status = "success"
            /\ b \in observed_ids ) =>
          /\ doc_results[b] = Result("success", "observed_change_via_diff", "")
          /\ summary.emitted
          /\ summary.success = 2
          /\ summary.failed = 0
          /\ summary.total = 2
          /\ \A k \in 1 .. Len(archive_rows) : archive_rows[k].status = "success")

C6_Witness ==
  /\ pc = "returned"
  /\ Len(doc_ids) = 2
  /\ doc_results[doc_ids[1]] = Result("success", "task_state", "SUCCESS")
  /\ doc_results[doc_ids[2]] = Result("success", "observed_change_via_diff", "")
  /\ summary.success = 2
  /\ summary.failed = 0

\* C7: when the flag is set during the diff-observation phase, every id
\* still pending at the end of the phase ends as failed with the detail
\* stopped_before_diff_observation, none is accepted without diff, and the
\* ids whose diff was observed stay observed and end as success.
C7_StopDuringDiffObservation ==
  /\ [][ (pc \in DiffPcs) => (observed_ids \subseteq observed_ids') ]_vars
  /\ []( (stop_at.pc \in DiffPcs /\ pc \in AfterDiffPcs) =>
           /\ no_observed_diff_ids = {}
           /\ Range(Keys(no_task_baselines)) = observed_ids \cup stopped_ids
           /\ stopped_ids = Range(Keys(pending))
           /\ \A d \in stopped_ids :
                /\ doc_results[d] = Result("failed", "stopped_before_diff_observation", "")
                /\ \A k \in RowsOf(d) : archive_rows[k].status = "failed"
           /\ \A d \in observed_ids :
                /\ doc_results[d] = Result("success", "observed_change_via_diff", "")
                /\ \A k \in RowsOf(d) : archive_rows[k].status = "success" )

C7_Witness ==
  /\ pc = "returned"
  /\ stop_at.pc \in DiffPcs
  /\ stopped_ids # {}
  /\ observed_ids # {}

\* C8: the POST is issued at most once per id and in batch order; a POST
\* that raises marks that id alone failed (submit_error with the exception
\* text) and the loop goes on to the next id; unless a stop is requested
\* during the submission phase every id of the batch is submitted.
C8_SubmitOncePerIdErrorsIsolated ==
  /\ [](/\ Len(submit_log) <= Len(doc_ids)
        /\ submit_log = SubSeq(doc_ids, 1, Len(submit_log))
        /\ IsDistinct(submit_log))
  /\ []((pc \notin SubmitPcs \cup {"idle"} /\ stop_at.pc \notin SubmitPcs) =>
          submit_log = doc_ids)
  /\ [][ (pc = "submit_call" /\ pc' # pc /\ doc_results'[doc_ids[idx]].tag = "submit_error") =>
           /\ doc_results'[doc_ids[idx]].status = "failed"
           /\ doc_results'[doc_ids[idx]].arg \in Exceptions
           /\ \A d \in Range(doc_ids) \ {doc_ids[idx]} : doc_results'[d] = doc_results[d]
           /\ submitted_tasks' = submitted_tasks
           /\ no_task_baselines' = no_task_baselines
           /\ pc' = "submit_check"
           /\ idx' = idx + 1 ]_vars

\* The first POST raised and the second id was submitted all the same.
C8_Witness ==
  /\ Len(doc_ids) = 2
  /\ submit_log = doc_ids
  /\ doc_results[doc_ids[1]].tag = "submit_error"
  /\ doc_results[doc_ids[2]].tag = "task_id"

\* C9: when the submission loop sees the flag set it halts: no id is
\* submitted from then on, and the ids not yet submitted stay pending with
\* the detail not_submitted until the finalization loop reaches them.
C9_StopHaltsSubmission ==
  /\ [][ (pc = "submit_check" /\ idx <= Len(doc_ids) /\ stop_event /\ pc' # pc) =>
           pc' = "poll_loop" ]_vars
  /\ [][ (pc \notin SubmitPcs \cup {"idle"} \/ (pc = "submit_check" /\ stop_event)) =>
           submit_log' = submit_log ]_vars
  /\ []( (pc \notin SubmitPcs \cup {"idle"} /\ Len(submit_log) < Len(doc_ids)) =>
           /\ stop_event
           /\ \A k \in (Len(submit_log) + 1) .. Len(doc_ids) :
                (pc \in PollPcs \cup DiffPcs \cup {"diff_start"} \/ (pc = "finalize" /\ idx <= k))
                  => doc_results[doc_ids[k]] = Result("pending", "not_submitted", "") )

C9_Witness ==
  /\ pc = "finalize"
  /\ idx = 2
  /\ Len(doc_ids) = 2
  /\ Len(submit_log) = 1
  /\ doc_results[doc_ids[2]] = Result("pending", "not_submitted", "")

\* C10: a task query that raises for one id fails that id alone: the id
\* ends as failed, and every id of the batch still has its outcome and its
\* row when the worker returns.
C10_PollErrorFailsOnlyThatId ==
  (pc = "returned" /\ crashed # "") =>
    /\ doc_results[submitted_tasks[task_idx].id].status = "failed"
    /\ \A d \in Range(doc_ids) : Terminal(doc_results[d])
    /\ OneRowPerId
    /\ history = archive_rows

\* The two positions of the loop of _poll_task_until_terminal.
TaskPollPcs == {"poll_inner_check", "poll_get"}

\* C11 (as claimed): a reprocess batch always terminates: whenever a run is
\* active, the worker eventually returns and clears the active-run flag,
\* whatever the task endpoint answers and whether or not the user cancels.
C11_BatchAlwaysTerminates == api_run_active ~> ~api_run_active

\* C11 (amended): an active run eventually ends unless the worker stays in
\* the task-status poll with the cancellation flag clear.  In particular a
\* run always ends once the flag is set, and the diff poll of ids without a
\* task id always ends (at the ceiling at the latest).
C11_TerminatesUnlessPollingUncancelled ==
  api_run_active ~> (~api_run_active \/ (pc \in TaskPollPcs /\ ~stop_event))

\* C11 witness: a run that was cancelled while the worker was polling a task
\* has returned and cleared the flag.
C11_Witness ==
  /\ pc = "returned"
  /\ ~api_run_active
  /\ stop_event
  /\ stop_at.pc \in TaskPollPcs
  /\ crashed = ""

\* The state a task answer reports: the first text with something in it
\* among status, state and task_status of its task object, without the
\* blanks around it; None when there is no task object or no such text.
ReportedState(payload) ==
  LET texts == << payload.status, payload.state, payload.task_status >>
      given == { k \in 1 .. 3 : texts[k] # None /\ Strip(texts[k][1]) # "" }
      found == payload.shape \in {"results", "list"}
                 \/ (payload.shape = "flat" /\ payload.status # None)
  IN  IF ~found \/ given = {} THEN None
      ELSE Some(Strip(texts[CHOOSE k \in given : \A j \in given : k <= j][1]))

SuccessTokens == {"success", "succeeded", "done", "completed", "complete", "finished"}
FailureTokens == {"failure", "failed", "error", "revoked", "canceled", "cancelled"}

\* The reported state is one of the tokens, whatever the case of its letters.
ReportsOneOf(payload, tokens) ==
  /\ ReportedState(payload) # None
  /\ \E token \in tokens : Upper(ReportedState(payload)[1]) = Upper(token)

\* C12: an answer of the task endpoint that reports a success token, in any
\* case, ends the poll and the id is recorded as success; one that reports a
\* failure token ends the poll and the id is recorded as failed; any other
\* answer, or one that reports no state, leaves the id pending and the worker
\* at the head of the poll loop, which queries again unless the cancellation
\* flag is set.  The poll returns only with a terminal state or, cancelled,
\* with ABORTED.
C12_TaskStateClassification ==
  [][ LET id == submitted_tasks[task_idx].id
      IN  /\ (pc = "poll_get" /\ task_payload' # None) =>
               LET payload == task_payload'[1]
               IN  /\ ReportsOneOf(payload, SuccessTokens) =>
                        /\ pc' = "poll_return"
                        /\ _classify_task_state(poll_state') = "success"
                   /\ ReportsOneOf(payload, FailureTokens) =>
                        /\ pc' = "poll_return"
                        /\ _classify_task_state(poll_state') = "failure"
                   /\ ~ReportsOneOf(payload, SuccessTokens \cup FailureTokens) =>
                        /\ pc' = "poll_inner_check"
                        /\ doc_results'[id].status = "pending"
          /\ (pc = "poll_inner_check" /\ pc' # pc) =>
               IF stop_event THEN pc' = "poll_return" /\ poll_state' = "ABORTED"
                             ELSE pc' = "poll_get"
          /\ (pc = "poll_return" /\ pc' # pc /\ ~stop_event) =>
               /\ _classify_task_state(poll_state) \in {"success", "failure"}
               /\ doc_results'[id].status =
                    IF _classify_task_state(poll_state) = "success"
                      THEN "success" ELSE "failed"
    ]_vars

\* C12 witness: a success token written in mixed case has ended the poll.
C12_Witness ==
  /\ pc = "poll_return"
  /\ task_payload # None
  /\ task_payload[1].status = Some("Done")
  /\ poll_state = "DONE"

\* The step issues a submission, a task-status query or a refetch of the
\* diff poll.
IssuesRunOperation ==
  \/ pc = "submit_call" /\ submit_log' # submit_log
  \/ pc = "poll_get" /\ pc' # pc
  \/ pc = "diff_fetch" /\ pc' # pc

\* The step issues the final refetch of an id in the reporting loop.
IssuesFinalRefetch == pc = "record" /\ archive_rows' # archive_rows

\* The operation the step issues was in flight when the flag was set: the
\* worker had passed the cancellation check that guards it.
InFlightAtStop ==
  /\ stop_at.pc = pc
  /\ stop_at.idx = idx
  /\ stop_at.task_idx = task_idx

\* C13 (as claimed): once the cancellation flag is set, the worker issues no
\* submission, task-status query or document refetch other than the one that
\* was in flight when the flag was set.
C13_NoNewOperationAfterStop ==
  [][ (stop_event /\ (IssuesRunOperation \/ IssuesFinalRefetch)) => InFlightAtStop ]_vars

\* C13 (amended): once the cancellation flag is set, the worker issues no
\* submission, task-status query or diff-poll refetch other than the one that
\* was in flight when the flag was set; the final refetches of the reporting
\* loop are not covered.
C13_NoNewSubmitPollOrDiffAfterStop ==
  [][ (stop_event /\ IssuesRunOperation) => InFlightAtStop ]_vars

\* C13 witness: the flag was set while the first of two submissions was in
\* flight; that POST was issued, the second never was, and the reporting
\* loop has still refetched both documents.
C13_Witness ==
  /\ pc = "returned"
  /\ Len(doc_ids) = 2
  /\ stop_at.pc = "submit_call"
  /\ stop_at.idx = 1
  /\ submit_log = << doc_ids[1] >>
  /\ Len(archive_rows) = 2
  /\ \A k \in 1 .. 2 : ~archive_rows[k].post_fetch_error

\* C14: the two active flags are never both set, and while one of them is
\* set no step accepts a run: no flag is newly set, the batch, its baseline
\* and the ids of the export stay as they are and the cancellation flag is
\* not cleared.  A request that is turned down changes nothing at all of
\* the dashboard's state, and requests are turned down only while a run or
\* an export is active.
C14_AtMostOneRunActive ==
  [][ /\ ~(api_run_active' /\ export_active')
      /\ (api_run_active \/ export_active) =>
           /\ api_run_active' => api_run_active
           /\ export_active' => export_active
           /\ doc_ids' = doc_ids
           /\ baseline_snapshots' = baseline_snapshots
           /\ export_ids' = export_ids
           /\ stop_event => stop_event'
      /\ rejected' # rejected =>
           /\ api_run_active \/ export_active
           /\ UNCHANGED << api_run_active, stop_event, pc, doc_ids,
                           baseline_snapshots, idx, workerLocals, history,
                           summary, crashed, submit_log, stop_at,
                           results_at_stop, exportVars >>
    ]_vars

\* C14 witness: during a reprocess run an OCR request and an export request
\* were both turned down, and the run went on to its end.
C14_Witness ==
  /\ rejected = {"run_selected_ocr", "_export_documents_to_rag"}
  /\ export_pc = "idle"
  /\ pc = "returned"
  /\ summary.emitted

\* C15: each iteration of the reporting loop leaves the outcomes of all ids
\* as they are and appends exactly one row, for the id at hand, which had no
\* row before.  The row carries the status and the detail the id had, the
\* pre-run content length of the baseline and content_delta = post - pre;
\* when the refetch failed the detail is marked with post_fetch_error, post
\* equals pre and the delta is 0.  At the end of the loop every id of the
\* batch has its row.
C15_RefetchFailureKeepsStatus ==
  [][ /\ (pc = "record" /\ archive_rows' # archive_rows) =>
           LET id == doc_ids[idx]
               row == archive_rows'[Len(archive_rows')]
           IN  /\ doc_results' = doc_results
               /\ archive_rows' = Append(archive_rows, row)
               /\ RowsOf(id) = {}
               /\ row.id = id
               /\ row.status = IF doc_results[id].status = "success"
                                 THEN "success" ELSE "failed"
               /\ doc_results[id].status = "failed" => row.status = "failed"
               /\ row.tag = doc_results[id].tag
               /\ row.arg = doc_results[id].arg
               /\ row.pre_content_length = baseline_snapshots[id].content_length
               /\ row.content_delta = row.post_content_length - row.pre_content_length
               /\ row.post_fetch_error =>
                    /\ row.post_content_length = row.pre_content_length
                    /\ row.content_delta = 0
      /\ (pc = "record" /\ pc' = "summarize") => OneRowPerId
    ]_vars

\* C15 witness: the run has ended with the row of an id whose final refetch
\* failed and whose outcome is success, next to a row with a measured delta.
C15_Witness ==
  /\ pc = "returned"
  /\ Len(archive_rows) = 2
  /\ archive_rows[1].post_fetch_error
  /\ archive_rows[1].status = "success"
  /\ archive_rows[1].content_delta = 0
  /\ ~archive_rows[2].post_fetch_error
  /\ archive_rows[2].content_delta = 450

\* C16: the summary of a run of N ids reports success + failed = N, and when
\* an id was accepted without a task id it carries a breakdown whose counts
\* (the "Summary detail:" line has observed_diff and no_observed_diff, and
\* no count of stopped ids) sum to the number of ids accepted without a task
\* id.
C16_SummaryCountsAddUp ==
  pc = "returned" =>
    /\ summary.emitted
    /\ summary.success + summary.failed = Len(doc_ids)
    /\ accepted_no_task_count > 0 =>
         /\ summary.detail # None
         /\ summary.detail[1].observed_diff + summary.detail[1].no_observed_diff
              = summary.detail[1].accepted_without_task_id

\* ----------------------------------------------------------- sync claims
\* The ids active in the database the run connected to.
ActiveBefore ==
  { id \in DOMAIN before_run.tracked_documents :
      before_run.tracked_documents[id].is_active = 1 }

DistinctIds(list) == Cardinality(IdsOf(list)) = Len(list)

ClassificationsOf(table, run, paperless_id) ==
  { c \in table : c.run_id = run /\ c.paperless_id = paperless_id }

\* C17: for an observed list with distinct ids and any prior tracked state,
\* run_sync returns new + changed + unchanged = number of observed
\* documents, and mark_missing_documents returns the number of ids that were
\* active before the run and are absent from the observed set, each of them
\* soft-deleted and given exactly one classification row, 'missing'.
C17_SyncCountsAndMissing ==
  /\ (sync_pc \in {"mark_missing", "complete", "commit"} /\ DistinctIds(docs))
       => new_count + changed_count + unchanged_count = Len(docs)
  /\ (sync_pc \in {"complete", "commit"} /\ DistinctIds(docs))
       => LET absent == ActiveBefore \ IdsOf(docs)
          IN  /\ missing_count = Cardinality(absent)
              /\ \A id \in absent :
                   /\ tracked_documents[id].is_active = 0
                   /\ tracked_documents[id].deleted_at = Some(now_iso)
                   /\ tracked_documents[id].deleted_in_run_id = Some(run_id)
                   /\ Cardinality(ClassificationsOf(document_classifications, run_id,
                                         id)) = 1
                   /\ \A c \in ClassificationsOf(document_classifications, run_id, id) :
                        c.classification = "missing"

\* A run past mark_missing_documents that observed a document, found an
\* active id absent and a soft-deleted id in the database.
C17_Witness ==
  /\ sync_pc = "complete"
  /\ Len(docs) > 0
  /\ ActiveBefore \ IdsOf(docs) # {}
  /\ missing_count > 0

\* The seven mirrored fields of a row.
Mirrored(row) == [ field \in Range(FingerprintFields) |-> row[field] ]

\* C18: a run whose observed list is the one of the run committed just
\* before it counts new = 0, changed = 0, unchanged = number of observed
\* documents and missing = 0, and leaves the mirrored fields and the
\* fingerprint of every tracked document as they were.
C18_SyncIdempotent ==
  (sync_pc \in {"complete", "commit"} /\ last_observed = Some(docs))
    => /\ new_count = 0
       /\ changed_count = 0
       /\ unchanged_count = Len(docs)
       /\ missing_count = 0
       /\ DOMAIN tracked_documents = DOMAIN before_run.tracked_documents
       /\ \A id \in DOMAIN tracked_documents :
            LET old == before_run.tracked_documents[id]
                new == tracked_documents[id]
            IN  /\ Mirrored(new) = Mirrored(old)
                /\ new.current_fingerprint = old.current_fingerprint

\* A second run over the same two documents, one of which an earlier run
\* had found changed.
C18_Witness ==
  /\ sync_pc = "commit"
  /\ last_observed = Some(docs)
  /\ Len(docs) = 2
  /\ unchanged_count = 2
  /\ \E c \in document_classifications : c.classification = "changed"

\* C19: a tracked document is never removed from the database: every id
\* committed stays committed.  A committing run leaves each id it observed
\* active with its deletion fields cleared, soft-deletes (is_active = 0,
\* deleted_at and deleted_in_run_id of this run) each id that was active and
\* that it did not observe, and leaves the row of an id already soft-deleted
\* and not observed as it was.
C19_NeverHardDeleted ==
  [][ /\ DOMAIN committed.tracked_documents
           \subseteq DOMAIN committed'.tracked_documents
      /\ (sync_pc = "commit" /\ sync_pc' = "committed")
           => \A id \in DOMAIN committed'.tracked_documents :
                LET new == committed'.tracked_documents[id]
                    old == committed.tracked_documents[id]
                IN  IF id \in IdsOf(docs)
                      THEN /\ new.is_active = 1
                           /\ new.deleted_at = None
                           /\ new.deleted_in_run_id = None
                      ELSE /\ id \in DOMAIN committed.tracked_documents
                           /\ IF old.is_active = 1
                                THEN /\ new.is_active = 0
                                     /\ new.deleted_at = Some(now_iso)
                                     /\ new.deleted_in_run_id = Some(run_id)
                                ELSE new = old
    ]_vars

\* A committed run in which an id soft-deleted by an earlier run is back and
\* active, while the other id is soft-deleted.
C19_Witness ==
  /\ sync_pc = "committed"
  /\ \E id \in DOMAIN tracked_documents :
       /\ tracked_documents[id].is_active = 1
       /\ tracked_documents[id].deleted_at = None
       /\ \E c \in document_classifications :
            c.paperless_id = id /\ c.classification = "missing"
  /\ \E id \in DOMAIN tracked_documents :
       /\ tracked_documents[id].is_active = 0
       /\ tracked_documents[id].deleted_in_run_id = Some(run_id)

\* C20: a run one of whose statements raised (the run insert, a tracked
\* document insert or update, a classification insert, the missing marking,
\* the completion update or the commit) leaves the three tables, in the
\* connection and in the file, as they were when the run connected, and no
\* runs row of that run with completed_at set.
C20_FailedRunRolledBack ==
  sync_pc = "failed"
    => /\ Db = before_run
       /\ committed = before_run
       /\ \A k \in DOMAIN committed.runs :
            committed.runs[k].id = run_id
              => committed.runs[k].completed_at = None

\* A run over a non-empty database that wrote rows in all three tables and
\* failed at its completion update.
C20_Witness ==
  /\ sync_pc = "failed"
  /\ raised_at = "complete"
  /\ Len(docs) > 0
  /\ missing_count > 0
  /\ Len(committed.runs) > 0

\* The fields in which a stored row and an observed document differ.
Differing(row, doc) ==
  { field \in Range(FingerprintFields) : row[field] # doc[field] }

\* The classification rows one step of run_sync inserts.
Inserted == document_classifications' \ document_classifications

\* C21: a turn of run_sync for a tracked id records 'changed' exactly when
\* one of the seven fields differs from the stored value, 'unchanged'
\* otherwise, with exactly the differing field names as changed fields; for
\* an id not tracked yet it records 'new' with all seven field names.
C21_ChangedFieldsExact ==
  [][ (sync_pc = "run_sync" /\ doc_i <= Len(docs) /\ doc_i' = doc_i + 1)
        => LET doc == docs[doc_i]
           IN  /\ Cardinality(Inserted) = 1
               /\ \A c \in Inserted :
                    /\ c.paperless_id = doc.id
                    /\ IF doc.id \in DOMAIN tracked_documents
                         THEN LET differing ==
                                    Differing(tracked_documents[doc.id], doc)
                              IN  /\ c.classification =
                                       IF differing # {} THEN "changed"
                                       ELSE "unchanged"
                                  /\ Range(c.changed_fields) = differing
                                  /\ Len(c.changed_fields)
                                       = Cardinality(differing)
                         ELSE /\ c.classification = "new"
                              /\ c.changed_fields = FingerprintFields
    ]_vars

\* A database with a 'new' row, a 'changed' row naming one field and an
\* 'unchanged' row.
C21_Witness ==
  /\ \E c \in document_classifications : c.classification = "new"
  /\ \E c \in document_classifications :
       c.classification = "changed" /\ c.changed_fields = << "modified" >>
  /\ \E c \in document_classifications :
       c.classification = "unchanged" /\ c.changed_fields = << >>

\* The seven fingerprinted values of a record.
SevenOf(record) ==
  [ field \in Range(FingerprintFields) |-> dict_get(record, field) ]

\* C22: two records with the same values of the seven fingerprinted fields
\* have the same fingerprint, whatever their id, their other fields and
\* the order of their keys; a record fingerprinted twice gives the same
\* fingerprint twice.
C22_FingerprintStable ==
  \A i, j \in DOMAIN fingerprint_calls :
    SevenOf(fingerprint_calls[i].record) = SevenOf(fingerprint_calls[j].record)
      => fingerprint_calls[i].fingerprint = fingerprint_calls[j].fingerprint

\* Two records fingerprinted that agree in the seven fields and differ in
\* id, in key order and in having a content field.
C22_Witness ==
  /\ Len(fingerprint_calls) = 2
  /\ SevenOf(fingerprint_calls[1].record) = SevenOf(fingerprint_calls[2].record)
  /\ dict_get(fingerprint_calls[1].record, "id")
       # dict_get(fingerprint_calls[2].record, "id")
  /\ fingerprint_calls[1].record[1][1] # fingerprint_calls[2].record[1][1]
  /\ Len(fingerprint_calls[1].record) # Len(fingerprint_calls[2].record)

\* The ids with a row of any status whose run timestamp lies within the
\* given number of days of now.
RecentlyRun(rows, days) ==
  { id \in {1, 2, 3} :
      \E k \in DOMAIN rows :
        /\ rows[k].id = id
        /\ rows[k].run_ts # None
        /\ rows[k].run_ts[1] >= Today - days }

\* A document comes no later than another in the order (content_length, id).
NotAfter(a, b) ==
  \/ a.content_length < b.content_length
  \/ a.content_length = b.content_length /\ a.id <= b.id

\* C23: the selection holds no document whose id was run within
\* exclude_recent_days, is ascending by (content_length, id), has
\* batch_size documents or all the remaining ones if they are fewer, and
\* every remaining document left out comes after every selected one; with
\* batch_size 2 over ids 1, 2, 3 of lengths 500, 10, 200 and no recent
\* history it is id 2 then id 3.
C23_CandidateSelection ==
  run_candidates # None
    => LET call == run_candidates[1]
           remaining ==
             { d \in Range(call.docs) :
                 d.id \notin RecentlyRun(call.rows, call.recent_days) }
           selected == call.selected
       IN  /\ Range(selected) \subseteq remaining
           /\ Len(selected) = Min(call.batch_size, Cardinality(remaining))
           /\ Cardinality(Range(selected)) = Len(selected)
           /\ \A k \in 1 .. Len(selected) - 1 :
                NotAfter(selected[k], selected[k + 1])
           /\ \A d \in remaining \ Range(selected) :
                \A k \in 1 .. Len(selected) : NotAfter(selected[k], d)
           /\ ( /\ call.batch_size = 2
                /\ RecentlyRun(call.rows, call.recent_days) = {}
                /\ call.docs = << [id |-> 1, content_length |-> 500],
                                  [id |-> 2, content_length |-> 10],
                                  [id |-> 3, content_length |-> 200] >> )
                => selected = << [id |-> 2, content_length |-> 10],
                                 [id |-> 3, content_length |-> 200] >>

\* A selection of two out of three documents, the third removed by a failed
\* row of a week ago, with an older row and the order not the id order.
C23_Witness ==
  /\ run_candidates # None
  /\ Len(run_candidates[1].docs) = 3
  /\ run_candidates[1].recent_days = 7
  /\ run_candidates[1].rows =
       << [id |-> 1, run_ts |-> Some(3), status |-> "failed"],
          [id |-> 2, run_ts |-> Some(2), status |-> "success"] >>
  /\ Len(run_candidates[1].selected) = 2
  /\ run_candidates[1].selected[1].id = 3
  /\ run_candidates[1].selected[2].id = 2

\* The tags of a document, given when its archive filename counts as
\* missing and when its mime type counts as PDF.
TagsOf(d, threshold, no_archive, is_pdf) ==
  (IF d.content_length < threshold THEN << LowTextTag[threshold] >> ELSE << >>)
  \o (IF no_archive THEN << "missing_archive" >> ELSE << >>)
  \o (IF is_pdf /\ d.content_length = 0 THEN << "pdf_zero_text" >> ELSE << >>)

\* The rows of the last refresh_prospective call are those of the documents
\* not recently run that have a tag, each with its tags, ascending by
\* (content_length, id).
ProspectiveIs(NoArchive(_), IsPdf(_)) ==
  prospective_rows # None
    => LET call == prospective_rows[1]
           Tags(d) == TagsOf(d, call.threshold, NoArchive(d), IsPdf(d))
           tagged ==
             { d \in Range(call.docs) :
                 /\ d.id \notin RecentlyRun(call.rows, call.recent_days)
                 /\ Tags(d) # << >> }
           rows == call.prospective
       IN  /\ Range(rows) =
                { [id |-> d.id, content_length |-> d.content_length,
                   reason |-> Tags(d)] : d \in tagged }
           /\ Len(rows) = Cardinality(tagged)
           /\ \A k \in 1 .. Len(rows) - 1 : NotAfter(rows[k], rows[k + 1])

ArchiveEmpty(d) == d.archive_filename = ""
ArchiveBlank(d) == d.archive_filename \in {"", " "}
MimeIsPdf(d) == d.mime_type = "application/pdf"
MimeIsPdfAnyCase(d) == d.mime_type \in {"application/pdf", "Application/PDF"}

\* C24 as stated: low_text<threshold iff content_length < threshold,
\* missing_archive iff the archive filename is empty, pdf_zero_text iff the
\* mime type is application/pdf and content_length is 0, in this order;
\* untagged documents excluded; ascending by (content_length, id).
C24_ProspectiveTagsAsStated == ProspectiveIs(ArchiveEmpty, MimeIsPdf)

\* C24 amended: missing_archive iff the archive filename is empty or blank,
\* pdf_zero_text iff the mime type is application/pdf in any letter case
\* and content_length is 0; the rest as stated.
C24_ProspectiveTags == ProspectiveIs(ArchiveBlank, MimeIsPdfAnyCase)

\* Two rows, the first with all three tags for a document whose archive
\* filename is blank and whose mime type is spelled with capitals, while a
\* recent run removed nothing.
C24_Witness ==
  /\ prospective_rows # None
  /\ Len(prospective_rows[1].prospective) = 2
  /\ prospective_rows[1].prospective[1].reason
       = << "low_text<10", "missing_archive", "pdf_zero_text" >>
  /\ prospective_rows[1].prospective[2].id = 2
  /\ \E d \in Range(prospective_rows[1].docs) :
       d.archive_filename = " " /\ d.mime_type = "Application/PDF"

\* The ids of the well-formed records of the pages served, page after page.
RECURSIVE WellFormedIds(_)
WellFormedIds(pages) ==
  IF pages = << >> THEN << >>
  ELSE LET page == pages[Len(pages)]
           good == SelectSeq(page, LAMBDA item :
                               item.shape = "dict" /\ item.id # None)
       IN  WellFormedIds(SubSeq(pages, 1, Len(pages) - 1))
             \o [ k \in DOMAIN good |-> good[k].id[1] ]

\* How often an id occurs in a list of ids.
Occurrences(ids, id) == Cardinality({ k \in DOMAIN ids : ids[k] = id })

\* C25: a fetch never ends in the exception of a record without id; it
\* returns the records with an id of every page, skipping the records
\* without id and the items that are not objects.
C25_MalformedRecordSkipped ==
  /\ fetch_outcome # "raised"
  /\ fetch_outcome = "returned"
       => \A id \in {1, 2} :
            Occurrences([ k \in DOMAIN fetched |-> fetched[k].id ], id)
              = Occurrences(WellFormedIds(api_pages), id)

LastResponse == llm_responses[Len(llm_responses)]

\* C26: the request is attempted at most retry_attempts + 1 times; every
\* attempt but the last ended in a 5xx response, a timeout or a network
\* error; a 5xx response or a timeout with attempts remaining is followed
\* by another attempt; the first successful response ends the attempts; a
\* 4xx response or a body that is not JSON raises at once; an error at the
\* last attempt is raised and makes the document failed.
C26_LlmRetries ==
  /\ Len(llm_responses) <= retry_attempts + 1
  /\ \A k \in 1 .. Len(llm_responses) - 1 :
       llm_responses[k] \in {"http_5xx", "timeout", "url_error"}
  /\ llm_pc = "post" => attempt = Len(llm_responses) + 1
  /\ llm_pc \in {"post", "returned", "raised"} /\ llm_responses # << >>
       => /\ LastResponse \in {"json", "empty"} <=> llm_pc = "returned"
          /\ LastResponse \in {"http_4xx", "non_json"} => llm_pc = "raised"
          /\ ( /\ LastResponse \in {"http_5xx", "timeout", "url_error"}
               /\ Len(llm_responses) <= retry_attempts )
               => llm_pc = "post"
          /\ ( /\ LastResponse \in {"http_5xx", "timeout", "url_error"}
               /\ Len(llm_responses) = retry_attempts + 1 )
               => llm_pc = "raised"
  /\ ( /\ llm_pc = "recorded"
       /\ LastResponse \notin {"json", "empty"} )
       => llm_status = "failed"

\* A document failed after three attempts, the first two retried after a
\* 5xx response and a timeout.
C26_Witness ==
  /\ llm_pc = "recorded"
  /\ retry_attempts = 2
  /\ llm_responses = << "http_5xx", "timeout", "http_5xx" >>
  /\ llm_status = "failed"

\* ------------------------------------------------------ history file claims
\* The rows of a batch among the given lines.
RowsOfBatch(lines, t) == { k \in DOMAIN lines : lines[k].batch = t }

\* C27: at most one thread is inside its append or read; every row list a
\* read returned holds of each batch either no row or all its rows; in the
\* file the rows of a batch follow each other with no row of another batch
\* between them.
C27_HistoryLock ==
  /\ Cardinality({ t \in Threads : thread_pc[t] = "locked" }) <= 1
  /\ \A r \in DOMAIN loaded : \A t \in Appenders :
       Cardinality(RowsOfBatch(loaded[r], t)) \in {0, MaxBatchRows}
  /\ \A i, j \in DOMAIN history_file :
       (i < j /\ history_file[i].batch = history_file[j].batch)
         => \A k \in i .. j : history_file[k].batch = history_file[i].batch

\* A read returned the rows of one batch, complete, and the other batch
\* was appended after it.
C27_Witness ==
  /\ \E r \in DOMAIN loaded : Len(loaded[r]) = MaxBatchRows
  /\ Len(history_file) = 2 * MaxBatchRows
  /\ \A t \in Appenders : thread_pc[t] = "done"

\* ------------------------------------------------------ run ordering claims
\* C28: when the task query of an id has returned a terminal success state
\* and the stop flag is set before the worker has recorded the result, the
\* id's final result is not the failure "stopped_before_completion".
C28_TerminalSuccessKept ==
  ( /\ pc = "returned"
    /\ stop_at # NotStopped
    /\ stop_at.pc = "poll_return"
    /\ _classify_task_state(poll_state) = "success" )
    => doc_results[submitted_tasks[stop_at.task_idx].id]
         # Result("failed", "stopped_before_completion", "")

\* Every id of the batch has a result other than pending.
AllTerminal == \A d \in Range(doc_ids) : doc_results[d].status # "pending"

\* C29: once the stop flag is set during a run, the worker eventually
\* returns with every id of the batch in a terminal state and the
\* active-run flag clear.
C29_StopLeadsToTerminalReturn ==
  (api_run_active /\ stop_event)
    ~> (pc = "returned" /\ ~api_run_active /\ AllTerminal)

\* The phase the worker is in, by its position.
PhaseOf(at) ==
  CASE at \in {"submit_check", "submit_call"} -> 1
    [] at \in {"poll_loop", "poll_inner_check", "poll_get", "poll_return"} -> 2
    [] at \in {"diff_start", "diff_while", "diff_for", "diff_fetch",
               "diff_sleep", "diff_exit"} -> 3
    [] at = "finalize" -> 4
    [] at \in {"record", "summarize"} -> 5
    [] at \in {"finally", "returned"} -> 6
    [] OTHER -> 0

\* The submission loop has gone through the whole batch.
SubmissionEnded == idx > Len(doc_ids) /\ submit_log = doc_ids

\* The task-polling loop has gone through every submitted task and recorded
\* its result.
TaskPollingEnded ==
  /\ task_idx > Len(submitted_tasks)
  /\ \A k \in DOMAIN submitted_tasks :
       doc_results[submitted_tasks[k].id].tag = "task_state"

\* C30: the worker never goes back to an earlier phase; a task-status query
\* is issued only when the submission loop has ended, a diff-observation
\* refetch only when the task-polling loop has ended, and a final refetch
\* with its HistoryRow only when every id has a terminal status.
C30_PhasesOrdered ==
  [][ /\ PhaseOf(pc) <= PhaseOf(pc')
      /\ pc = "poll_get" => SubmissionEnded
      /\ pc = "diff_fetch" => (SubmissionEnded /\ TaskPollingEnded)
      /\ archive_rows' # archive_rows => (archive_rows' = << >> \/ AllTerminal)
    ]_vars

\* A run with a task id and an id accepted without one went through the
\* four phases: a task result recorded, a change observed by the diff poll,
\* and a HistoryRow for each id.
C30_Witness ==
  /\ pc = "returned"
  /\ Len(doc_ids) = 2
  /\ Len(submitted_tasks) = 1
  /\ Len(no_task_baselines) = 1
  /\ observed_ids # {}
  /\ Len(archive_rows) = 2
  /\ ~stop_event

\* --------------------------------------------------- finalization claims
\* The ids the finalization loop has yet to look at that are still pending.
PendingAtFinalization ==
  { d \in Range(doc_ids) : doc_results[d].status = "pending" }

\* C31: in a run from which no exception escaped, an id is pending at
\* finalization only with the cancellation flag set, and no id ever gets the
\* detail "incomplete without terminal status".
C31_ForcedFailureIsStopped ==
  /\ (pc = "finalize" /\ crashed = "" /\ PendingAtFinalization # {})
       => stop_event
  /\ \A d \in Range(doc_ids) :
       doc_results[d].tag # "incomplete_without_terminal_status"

\* Finalization has forced an id to failed, "stopped before completion".
C31_Witness ==
  /\ pc = "record"
  /\ crashed = ""
  /\ \E d \in Range(doc_ids) :
       doc_results[d] = Result("failed", "stopped_before_completion", "")

\* ------------------------------------------------------ submission claims
\* The places of an id in the two queues of the submission phase.
TaskEntries(d) == { k \in DOMAIN submitted_tasks : submitted_tasks[k].id = d }
NoTaskEntries(d) == { k \in DOMAIN no_task_baselines : no_task_baselines[k].id = d }

\* The four classes of an id after the submission phase.
TrackedByTask(d) ==
  /\ TaskEntries(d) # {}
  /\ doc_results[d].status = "pending"
AcceptedWithoutTask(d) ==
  /\ NoTaskEntries(d) # {}
  /\ \A k \in NoTaskEntries(d) : no_task_baselines[k].snap = baseline_snapshots[d]
  /\ doc_results[d].status = "pending"
SubmitFailed(d) == doc_results[d].status = "failed"
NotSubmitted(d) == doc_results[d] = Result("pending", "not_submitted", "")

ClassesOf(d) ==
  { c \in 1 .. 4 : \/ c = 1 /\ TrackedByTask(d)
                   \/ c = 2 /\ AcceptedWithoutTask(d)
                   \/ c = 3 /\ SubmitFailed(d)
                   \/ c = 4 /\ NotSubmitted(d) }

\* The submission loop has just ended: the polling loop is at its first test.
SubmissionJustEnded == pc = "poll_loop" /\ task_idx = 1

\* C32: when the submission loop has ended every id of the batch is in
\* exactly one of the four classes, and at no moment of the run is an id in
\* both queues, or twice in one.
C32_SubmissionClasses ==
  /\ SubmissionJustEnded => \A d \in Range(doc_ids) : Cardinality(ClassesOf(d)) = 1
  /\ \A d \in Range(doc_ids) :
       Cardinality(TaskEntries(d)) + Cardinality(NoTaskEntries(d)) <= 1

\* The submission of two ids has ended with one id tracked by a task id and
\* the other accepted without one.
C32_Witness ==
  /\ SubmissionJustEnded
  /\ \E d \in Range(doc_ids) : TrackedByTask(d)
  /\ \E d \in Range(doc_ids) : AcceptedWithoutTask(d)

\* ------------------------------------------------------ cancellation claims
\* C33: the step that accepts a run leaves the cancellation flag clear, no
\* step taken while neither a run nor an export is active sets the flag, and
\* a flag that is set during a run was set by a stop request made during
\* that run.
C33_StopBeforeRunIgnored ==
  [][ /\ (~api_run_active /\ api_run_active') => ~stop_event'
      /\ (~api_run_active /\ ~export_active) => (stop_event' = stop_event \/ ~stop_event')
      /\ (api_run_active' /\ stop_event') => (stop_at'.pc \notin {"none", "idle", "returned"})
    ]_vars

\* A stop request was ignored, then an export was cancelled, which left the
\* flag set, and the run accepted after it is at its first test with the
\* flag clear.
C33_Witness ==
  /\ stop_ignored
  /\ export_pc = "export_returned"
  /\ stop_at # NotStopped
  /\ pc = "submit_check"
  /\ idx = 1
  /\ api_run_active
  /\ ~stop_event

\* ------------------------------------------------------- hand-over claims
\* The worker has cleared the active-run flag.
HasClearedFlag(w) == workers[w].at \in {"cleared", "returned"}

\* The worker has the append of its rows before it.
AppendAhead(w) == workers[w].at \in {"running", "cleared"}

\* C34: a worker that has cleared the active-run flag, and whose try block
\* did not end in an exception, has its rows in the history; so when a later
\* run has been accepted the rows of every earlier run are in the history,
\* and at most one worker at a time has its append before it.
C34_FlagClearedAfterAppend ==
  /\ \A w \in DOMAIN workers :
       (HasClearedFlag(w) /\ ~workers[w].crashed)
         => ArchiveRow(w) \in Range(history)
  /\ \A v, w \in DOMAIN workers :
       (v < w /\ ~workers[v].crashed) => ArchiveRow(v) \in Range(history)
  /\ Cardinality({ w \in DOMAIN workers : AppendAhead(w) }) <= 1

\* --------------------------------------------------- selection after a run
\* The ids of the batch among the selected candidates.
BatchIdsSelected ==
  { d \in Range(doc_ids) :
      \E k \in DOMAIN run_candidates[1].selected :
        run_candidates[1].selected[k].id = d }

\* Every id of the batch has a row of the run in the history.
EveryIdHasRow ==
  \A d \in Range(doc_ids) : \E k \in DOMAIN history : history[k].id = d

RunDayOf(call) == call.rows[1].run_ts[1]

C36_ProgressOfCurrentRun ==
  /\ run_completed_ids \subseteq Range(doc_ids)
  /\ Cardinality(run_completed_ids) <= run_total

\* The run committed last and the ids of the documents it observed.
LastCommittedRun == committed.runs[Len(committed.runs)].id

LastObservedIds == IdsOf(last_observed[1])

\* C37: after every committed sync run R, a tracked document has
\* is_active = 1 if and only if its id was in R's observed set, and every
\* such document has last_seen_run_id = R.
C37_ActiveIffObserved ==
  last_observed # None
    => \A id \in DOMAIN committed.tracked_documents :
         LET row == committed.tracked_documents[id]
         IN  /\ (row.is_active = 1) <=> (id \in LastObservedIds)
             /\ id \in LastObservedIds => row.last_seen_run_id = LastCommittedRun

\* A second run has committed; it observed one tracked id and not the
\* other, which an earlier run had seen.
C37_Witness ==
  /\ sync_pc = "committed"
  /\ LastCommittedRun >= 2
  /\ \E id \in DOMAIN committed.tracked_documents :
       /\ id \in LastObservedIds
       /\ committed.tracked_documents[id].first_seen_run_id < LastCommittedRun
  /\ \E id \in DOMAIN committed.tracked_documents :
       /\ id \notin LastObservedIds
       /\ committed.tracked_documents[id].is_active = 0

\* C38: in every committed state of the tracked table, a row has
\* is_active = 1 exactly when deleted_at and deleted_in_run_id are both
\* NULL, and is_active = 0 exactly when both are set; for an inactive row
\* deleted_in_run_id is later than last_seen_run_id, and first_seen_run_id
\* <= last_seen_run_id always.
C38_DeletionFieldsConsistent ==
  \A id \in DOMAIN committed.tracked_documents :
    LET row == committed.tracked_documents[id]
    IN  /\ row.is_active \in {0, 1}
        /\ (row.is_active = 1)
             <=> (row.deleted_at = None /\ row.deleted_in_run_id = None)
        /\ (row.is_active = 0)
             <=> (row.deleted_at # None /\ row.deleted_in_run_id # None)
        /\ row.is_active = 0
             => row.deleted_in_run_id[1] > row.last_seen_run_id
        /\ row.first_seen_run_id <= row.last_seen_run_id

\* The committed table holds an id that was soft-deleted and is active
\* again, seen last in a later run than first, next to an id that is
\* soft-deleted now.
C38_Witness ==
  /\ \E id \in DOMAIN committed.tracked_documents :
       /\ committed.tracked_documents[id].is_active = 1
       /\ committed.tracked_documents[id].first_seen_run_id
            < committed.tracked_documents[id].last_seen_run_id
       /\ \E c \in committed.document_classifications :
            c.paperless_id = id /\ c.classification = "missing"
  /\ \E id \in DOMAIN committed.tracked_documents :
       committed.tracked_documents[id].is_active = 0

\* The ids tracked when the run connected that the run did not observe: the
\* ones the run committed before it had observed, and the ones it had not.
AbsentFirst ==
  { id \in DOMAIN before_run.tracked_documents \ IdsOf(docs) :
      id \in LastObservedIds }

AbsentAgain ==
  { id \in DOMAIN before_run.tracked_documents \ IdsOf(docs) :
      id \notin LastObservedIds }

\* The runs that recorded the given classification for an id.
RunsClassifying(table, paperless_id, kinds) ==
  { c.run_id : c \in { r \in table : r.paperless_id = paperless_id
                                       /\ r.classification \in kinds } }

\* C39: an id that is absent from the observed sets of several consecutive
\* sync runs is classified 'missing' and counted in missing only in the
\* first of those runs; the later runs record no classification for it and
\* leave its deleted_at and deleted_in_run_id unchanged.
C39_MissingOnlyOnce ==
  /\ (sync_pc \in {"complete", "commit"} /\ last_observed # None)
       => /\ missing_count = Cardinality(AbsentFirst)
          /\ \A id \in AbsentFirst :
               \E c \in document_classifications :
                 /\ ClassificationsOf(document_classifications, run_id, id) = {c}
                 /\ c.classification = "missing"
          /\ \A id \in AbsentAgain :
               /\ ClassificationsOf(document_classifications, run_id, id) = {}
               /\ tracked_documents[id] = before_run.tracked_documents[id]
  /\ \A id \in DOMAIN committed.tracked_documents :
       \A first, later \in RunsClassifying(committed.document_classifications, id, {"missing"}) :
         first < later
           => \E seen \in RunsClassifying(committed.document_classifications, id, {"new", "changed", "unchanged"}) :
                first < seen /\ seen < later

\* A third run is about to commit: it observed nothing, one id was observed
\* by the run before it and the other was soft-deleted by that run already.
C39_Witness ==
  /\ sync_pc = "commit"
  /\ last_observed # None
  /\ AbsentFirst # {}
  /\ AbsentAgain # {}
  /\ missing_count = 1

\* The values of first_seen_run_id and first_seen_at of a row.
FirstSeen(row) == << row.first_seen_run_id, row.first_seen_at >>

\* The turn of run_sync is for an id whose row is soft-deleted.
ReappearingTurn ==
  /\ sync_pc = "run_sync"
  /\ doc_i <= Len(docs)
  /\ docs[doc_i].id \in DOMAIN tracked_documents
  /\ tracked_documents[docs[doc_i].id].is_active = 0

\* C40: an id that was soft-deleted and reappears in a later run is never
\* classified 'new': it is classified 'unchanged' when its fingerprint
\* equals the stored one and 'changed' otherwise, and its first_seen_run_id
\* and first_seen_at keep the values of its first observation (no sync run
\* ever changes them).
C40_ReappearedKeepsFirstSeen ==
  [][ /\ \A id \in DOMAIN tracked_documents \cap DOMAIN tracked_documents' :
           FirstSeen(tracked_documents'[id]) = FirstSeen(tracked_documents[id])
      /\ \A id \in DOMAIN committed.tracked_documents :
           /\ id \in DOMAIN committed'.tracked_documents
           /\ FirstSeen(committed'.tracked_documents[id])
                = FirstSeen(committed.tracked_documents[id])
      /\ \A id \in DOMAIN committed'.tracked_documents :
           \E c \in committed'.document_classifications :
             /\ c.paperless_id = id
             /\ c.classification = "new"
             /\ FirstSeen(committed'.tracked_documents[id])
                  = << c.run_id, c.observed_at >>
             /\ \A other \in committed'.document_classifications :
                  (other.paperless_id = id /\ other.classification = "new")
                    => other = c
      /\ ReappearingTurn
           => /\ doc_i' = doc_i + 1 => Inserted # {}
              /\ \A c \in Inserted :
                   /\ c.paperless_id = docs[doc_i].id
                   /\ c.classification =
                        IF stable_fingerprint(docs[doc_i])
                             = tracked_documents[docs[doc_i].id].current_fingerprint
                          THEN "unchanged"
                          ELSE "changed"
    ]_vars

\* A reappearance has been committed: an id seen before has a 'missing' row
\* of one run and a row of the given classification of the run after it.
Reappeared(kind) ==
  \E id \in DOMAIN committed.tracked_documents :
    \E gone, back \in committed.document_classifications :
      /\ gone.paperless_id = id
      /\ back.paperless_id = id
      /\ gone.classification = "missing"
      /\ back.classification = kind
      /\ back.run_id = gone.run_id + 1
      /\ committed.tracked_documents[id].first_seen_run_id < gone.run_id

\* An id came back with another fingerprint than the stored one.
C40_Witness ==
  /\ sync_pc = "committed"
  /\ Reappeared("changed")

====
